---------------------------- MODULE Spec2Model ----------------------------
(***************************************************************************)
(* A model of the boids/SIR simulation engine of rust_src/src/sim.rs.      *)
(*                                                                         *)
(* Number representation.  The engine computes in f32.  Here an f32 is a   *)
(* point of the decimal lattice with one fractional digit: the integer v   *)
(* stands for v / Q with Q = 10 (so 0.1, 0.5 and 1.0, the clamping minima  *)
(* of the engine, are 1, 5 and 10).  Products and quotients are rounded to *)
(* the nearest lattice point, ties to even, as IEEE arithmetic rounds.     *)
(* The generator is exact: its 32-bit state is a pair of 16-bit limbs and  *)
(* next_f32 is the exact f32 quotient, kept as a numerator over 2^32.      *)
(* tanh, exp, cos and sin are tables of their values on the lattice.       *)
(***************************************************************************)
EXTENDS Integers, Sequences, FiniteSets, TLC

Q == 10

\* `let x = e; F(x)`: e is computed once and F reads its value.
Bind(e, F(_)) == CHOOSE r \in {F(x) : x \in {e}} : TRUE

Abs(a) == IF a < 0 THEN -a ELSE a
Min(a, b) == IF a < b THEN a ELSE b
Max(a, b) == IF a > b THEN a ELSE b

\* n / d rounded to the nearest integer, ties to even (d # 0).
RDivPos(nn, dd) ==
    LET q == nn \div dd
        r == nn % dd
    IN  IF 2 * r < dd THEN q
        ELSE IF 2 * r > dd THEN q + 1
        ELSE IF q % 2 = 0 THEN q ELSE q + 1

RDiv(n, d) ==
    Bind(n, LAMBDA nv : Bind(d, LAMBDA dv :
        IF dv < 0 THEN RDivPos(-nv, -dv) ELSE RDivPos(nv, dv)))

FxMul(a, b) == RDiv(a * b, Q)
FxDiv(a, b) == RDiv(a * Q, b)
FxClamp(a, lo, hi) == IF a < lo THEN lo ELSE IF a > hi THEN hi ELSE a

RECURSIVE SqrtSearch(_, _, _)
\* The largest r in lo..hi with r * r <= n.
SqrtSearch(n, lo, hi) ==
    IF lo >= hi THEN lo
    ELSE Bind((lo + hi + 1) \div 2, LAMBDA mid :
            IF mid * mid <= n THEN SqrtSearch(n, mid, hi)
            ELSE Bind(mid - 1, LAMBDA top : SqrtSearch(n, lo, top)))

\* sqrt(n) rounded to the nearest integer (n >= 0).
RSqrt(n) ==
    Bind(n, LAMBDA nv :
        Bind(SqrtSearch(nv, 0, Min(nv, 40000)), LAMBDA r :
            IF nv - r * r > r THEN r + 1 ELSE r))

(***************************************************************************)
(* Vec2f                                                                   *)
(***************************************************************************)
Vec2fNew(x, y) == [x |-> x, y |-> y]
Vec2fDefault == Vec2fNew(0, 0)
Vec2fAdd(a, b) == Vec2fNew(a.x + b.x, a.y + b.y)
Vec2fSub(a, b) == Vec2fNew(a.x - b.x, a.y - b.y)
Vec2fMul(a, s) == Vec2fNew(FxMul(a.x, s), FxMul(a.y, s))
Vec2fDiv(a, s) == Vec2fNew(FxDiv(a.x, s), FxDiv(a.y, s))
\* x*x + y*y is carried at scale Q*Q, so the root is at scale Q.
Vec2fLengthSq(a) == a.x * a.x + a.y * a.y
Vec2fLength(a) == RSqrt(Vec2fLengthSq(a))
Vec2fLimit(a, max) ==
    Bind(a, LAMBDA v : Bind(Vec2fLength(v), LAMBDA len :
        IF len > max THEN Vec2fMul(v, FxDiv(max, len)) ELSE v))

(***************************************************************************)
(* HealthState                                                             *)
(***************************************************************************)
Susceptible == "Susceptible"
Infected == "Infected"
Recovered == "Recovered"
HealthState == {Susceptible, Infected, Recovered}

Idx(state) ==
    CASE state = Susceptible -> 0
      [] state = Infected -> 1
      [] state = Recovered -> 2

(***************************************************************************)
(* Lcg: the 32-bit state is hi * 2^16 + lo.                                *)
(***************************************************************************)
Limb == 65536
LcgMulHi == 25
LcgMulLo == 26125
LcgAddHi == 15470
LcgAddLo == 62303

U32(n) == [hi |-> n \div Limb, lo |-> n % Limb]

LcgNew(seed) == seed

\* next_u32 with the multiplier 22695477 of another well-known generator.
LcgNextU32OtherMultiplier(s) ==
    LET plo == s.lo * 20021
        mid == (s.hi * 20021 + s.lo * 346 + (plo \div Limb)) % Limb
        alo == (plo % Limb) + LcgAddLo
    IN  [hi |-> (mid + LcgAddHi + (alo \div Limb)) % Limb, lo |-> alo % Limb]

\* state.wrapping_mul(1664525).wrapping_add(1013904223)
LcgNextU32(s) ==
    LET plo == s.lo * LcgMulLo
        mid == (s.hi * LcgMulLo + s.lo * LcgMulHi + (plo \div Limb)) % Limb
        alo == (plo % Limb) + LcgAddLo
    IN  [hi |-> (mid + LcgAddHi + (alo \div Limb)) % Limb, lo |-> alo % Limb]

RECURSIVE BitLen(_)
BitLen(n) == IF n = 0 THEN 0 ELSE 1 + BitLen(n \div 2)

RECURSIVE Pow2(_)
Pow2(k) == IF k = 0 THEN 1 ELSE 2 * Pow2(k - 1)

\* `u as f32`: the nearest value with 24 significant bits, ties to even.
\* The result may be 2^32 itself, written hi = 65536, lo = 0.
U32AsF32(s) ==
    IF s.hi < 256 THEN s
    ELSE LET m == Pow2(BitLen(s.hi) - 8)
             q == s.lo \div m
             r == s.lo % m
             up == 2 * r > m \/ (2 * r = m /\ q % 2 = 1)
             lo2 == (q + (IF up THEN 1 ELSE 0)) * m
         IN  IF lo2 = Limb THEN [hi |-> s.hi + 1, lo |-> 0]
             ELSE [hi |-> s.hi, lo |-> lo2]

\* (state as f32) / (u32::MAX as f32): u32::MAX as f32 is 2^32, so the sample
\* is the numerator U32AsF32(state) over 2^32.
SampleOf(s) == U32AsF32(s)
SampleIsOne(u) == u.hi = Limb

\* sample * k with k a plain integer, |k| < 2^15: floor, and nearest.
SampleFloor(u, k) == (u.hi * k + ((u.lo * k) \div Limb)) \div Limb
SampleTimes(u, k) == (u.hi * k + ((u.lo * k) \div Limb) + (Limb \div 2)) \div Limb
\* sample < p for p on the lattice.
SampleLess(u, p) == SampleFloor(u, Q) < p

\* The trainer's generator (headless.rs): Rand::new, next_u32, next_f32.
RandNew(seed) == seed

RandNextU32(s) ==
    LET plo == s.lo * LcgMulLo
        mid == (s.hi * LcgMulLo + s.lo * LcgMulHi + (plo \div Limb)) % Limb
        alo == (plo % Limb) + LcgAddLo
    IN  [hi |-> (mid + LcgAddHi + (alo \div Limb)) % Limb, lo |-> alo % Limb]

RandSampleOf(s) == U32AsF32(s)

RECURSIVE LcgStream(_, _)
\* The generator states after 1, 2, ..., k draws from s.
LcgStream(s, k) ==
    IF k = 0 THEN << >>
    ELSE IF k = 1 THEN << LcgNextU32(s) >>
    ELSE Bind(LcgStream(s, k \div 2), LAMBDA a :
            Bind(a[Len(a)], LAMBDA t : a \o LcgStream(t, k - (k \div 2))))

LcgAfter(s, k) == IF k = 0 THEN s ELSE LcgStream(s, k)[k]


(***************************************************************************)
(* Lattice tables of the transcendental functions.                         *)
(***************************************************************************)
\* tanh(k / 10) * 10 for k = 1..18; tanh rounds to 1.0 from 1.9 on.
TanhTable == << 1, 2, 3, 4, 5, 5, 6, 7, 7, 8, 8, 8, 9, 9, 9, 9, 9, 9 >>
Tanh(a) ==
    LET m == Abs(a)
        t == IF m = 0 THEN 0 ELSE IF m > Len(TanhTable) THEN Q ELSE TanhTable[m]
    IN  IF a < 0 THEN -t ELSE t

\* (1 - exp(-k / 10)) * 10 for k = 1..29; it rounds to 1.0 from 3.0 on.
OneMinusExpTable ==
    << 1, 2, 3, 3, 4, 5, 5, 6, 6, 6, 7, 7, 7, 8, 8, 8, 8, 8, 9, 9,
       9, 9, 9, 9, 9, 9, 9, 9, 9 >>
\* 1.0 - (-a).exp(); for a < 0 the second-order expansion -(|a| + a^2 / 2).
OneMinusExpNeg(a) ==
    IF a = 0 THEN 0
    ELSE IF a > Len(OneMinusExpTable) THEN Q
    ELSE IF a > 0 THEN OneMinusExpTable[a]
    ELSE a - RDiv(a * a, 2 * Q)

\* cos and sin of the sixteen directions k * TAU / 16, k = 0..15.
CosTable == << 10, 9, 7, 4, 0, -4, -7, -9, -10, -9, -7, -4, 0, 4, 7, 9 >>
SinTable == << 0, 4, 7, 9, 10, 9, 7, 4, 0, -4, -7, -9, -10, -9, -7, -4 >>
Directions == 16
\* (angle.cos(), angle.sin()) for angle = sample * TAU.
UnitOfSample(u) ==
    LET k == SampleFloor(u, Directions) % Directions
    IN  Vec2fNew(CosTable[k + 1], SinTable[k + 1])

(***************************************************************************)
(* NnPolicy: w1, b1, w2, b2 are sequences (index k + 1 for the source's k). *)
(***************************************************************************)
FEATURE_SIZE == 14
HIDDEN_SIZE == 16

Zeros(n) == [k \in 1..n |-> 0]

NnPolicyNew(input_size, hidden_size) ==
    [input_size |-> input_size,
     hidden_size |-> hidden_size,
     w1 |-> Zeros(input_size * hidden_size),
     b1 |-> Zeros(hidden_size),
     w2 |-> Zeros(hidden_size * 2),
     b2 |-> Zeros(2)]

\* (rng.next_f32() * 2.0 - 1.0) * scale
RandomWeight(u, scale) == FxMul(SampleTimes(u, 2 * Q) - Q, scale)

\* randomize: draws for w1, b1, w2, b2 in this order; the policy and the
\* generator state after the last draw.
Randomize(policy, rng, scale) ==
    LET n1 == Len(policy.w1)
        n2 == Len(policy.b1)
        n3 == Len(policy.w2)
        n4 == Len(policy.b2)
    IN  Bind(LcgStream(rng, n1 + n2 + n3 + n4), LAMBDA st :
          LET W(k) == RandomWeight(SampleOf(st[k]), scale)
          IN  [policy |-> [policy EXCEPT
                              !.w1 = [k \in 1..n1 |-> W(k)],
                              !.b1 = [k \in 1..n2 |-> W(n1 + k)],
                              !.w2 = [k \in 1..n3 |-> W(n1 + n2 + k)],
                              !.b2 = [k \in 1..n4 |-> W(n1 + n2 + n3 + k)]],
               rng |-> st[n1 + n2 + n3 + n4]])

RECURSIVE DotSum(_, _, _, _)
\* weights[row + 1] * input[1] + ... + weights[row + n] * input[n], at scale Q*Q.
DotSum(weights, row, input, n) ==
    IF n = 0 THEN 0
    ELSE weights[row + n] * input[n] + DotSum(weights, row, input, n - 1)

DotSimd(weights, row, input, n) == RDiv(DotSum(weights, row, input, n), Q)

\* forward_into adding to the hidden buffer the previous agent left.
ForwardIntoRecurrent(policy, input, hidden) ==
    Bind([h \in 1..Len(hidden) |->
            Tanh(hidden[h] + policy.b1[h]
                 + DotSimd(policy.w1, (h - 1) * policy.input_size,
                           input, policy.input_size))],
         LAMBDA newHidden :
            LET Out(o) ==
                    Tanh(policy.b2[o]
                         + DotSimd(policy.w2, (o - 1) * policy.hidden_size,
                                   newHidden, policy.hidden_size))
            IN  [out |-> Vec2fNew(Out(1), Out(2)), hidden |-> newHidden])

\* forward_into: the output and the hidden buffer it leaves behind.
ForwardInto(policy, input, hidden) ==
    Bind([h \in 1..Len(hidden) |->
            Tanh(policy.b1[h]
                 + DotSimd(policy.w1, (h - 1) * policy.input_size,
                           input, policy.input_size))],
         LAMBDA newHidden :
            LET Out(o) ==
                    Tanh(policy.b2[o]
                         + DotSimd(policy.w2, (o - 1) * policy.hidden_size,
                                   newHidden, policy.hidden_size))
            IN  [out |-> Vec2fNew(Out(1), Out(2)), hidden |-> newHidden])

\* What a panicking call leaves behind: no value.
Panic == [panicked |-> TRUE]
IsPanic(s) == "panicked" \in DOMAIN s

ParamCount(policy) ==
    Len(policy.w1) + Len(policy.b1) + Len(policy.w2) + Len(policy.b2)

\* to_vec: w1, b1, w2, b2 appended in this order.
ToVec(policy) == policy.w1 \o policy.b1 \o policy.w2 \o policy.b2

\* &params[offset..offset + n] of from_vec's closure take; the slice panics
\* when it ends past the vector.
TakeFits(params, offset, n) == offset + n <= Len(params)
Take(params, offset, n) == [k \in 1..n |-> params[offset + k]]

\* from_vec taking the hidden biases before the first weight matrix.
FromVecBiasFirst(input_size, hidden_size, params) ==
    LET w1_len == input_size * hidden_size
        b1_len == hidden_size
        w2_len == hidden_size * 2
        b2_len == 2
    IN  IF ~TakeFits(params, 0, b1_len) THEN Panic
        ELSE IF ~TakeFits(params, b1_len, w1_len) THEN Panic
        ELSE IF ~TakeFits(params, w1_len + b1_len, w2_len) THEN Panic
        ELSE IF ~TakeFits(params, w1_len + b1_len + w2_len, b2_len) THEN Panic
        ELSE [input_size |-> input_size,
              hidden_size |-> hidden_size,
              w1 |-> Take(params, b1_len, w1_len),
              b1 |-> Take(params, 0, b1_len),
              w2 |-> Take(params, w1_len + b1_len, w2_len),
              b2 |-> Take(params, w1_len + b1_len + w2_len, b2_len)]

\* from_vec: four takes in a row; expected is computed and dropped.
FromVec(input_size, hidden_size, params) ==
    LET w1_len == input_size * hidden_size
        b1_len == hidden_size
        w2_len == hidden_size * 2
        b2_len == 2
    IN  IF ~TakeFits(params, 0, w1_len) THEN Panic
        ELSE IF ~TakeFits(params, w1_len, b1_len) THEN Panic
        ELSE IF ~TakeFits(params, w1_len + b1_len, w2_len) THEN Panic
        ELSE IF ~TakeFits(params, w1_len + b1_len + w2_len, b2_len) THEN Panic
        ELSE [input_size |-> input_size,
              hidden_size |-> hidden_size,
              w1 |-> Take(params, 0, w1_len),
              b1 |-> Take(params, w1_len, b1_len),
              w2 |-> Take(params, w1_len + b1_len, w2_len),
              b2 |-> Take(params, w1_len + b1_len + w2_len, b2_len)]

(***************************************************************************)
(* SpatialHash.  buckets maps the keys present to the indices pushed, in   *)
(* push order; hasher is the RandomState HashMap::new() draws per map.     *)
(***************************************************************************)
EmptyBuckets == [k \in {} |-> << >>]

SpatialHashNew(cell_size, hasher) ==
    [cell_size |-> cell_size, buckets |-> EmptyBuckets, hasher |-> hasher]

Clear(grid) == [grid EXCEPT !.buckets = EmptyBuckets]

SetCellSize(grid, cell_size) == [grid EXCEPT !.cell_size = Max(cell_size, Q)]

\* (pos / cell_size).floor() per axis
CellKeyOf(grid, pos) ==
    [x |-> pos.x \div grid.cell_size, y |-> pos.y \div grid.cell_size]

Insert(grid, idx, pos) ==
    Bind(CellKeyOf(grid, pos), LAMBDA key :
        [grid EXCEPT !.buckets =
            IF key \in DOMAIN grid.buckets
            THEN [grid.buckets EXCEPT ![key] = Append(@, idx)]
            ELSE (key :> << idx >>) @@ grid.buckets])

\* The (dx, dy) of the nine cells in the order of the two loops: dy outer.
BlockOffsets ==
    << << -1, -1 >>, << 0, -1 >>, << 1, -1 >>,
       << -1, 0 >>, << 0, 0 >>, << 1, 0 >>,
       << -1, 1 >>, << 0, 1 >>, << 1, 1 >> >>

RECURSIVE VisitCells(_, _, _)
VisitCells(grid, key, k) ==
    IF k > Len(BlockOffsets) THEN << >>
    ELSE LET nk == [x |-> key.x + BlockOffsets[k][1],
                    y |-> key.y + BlockOffsets[k][2]]
             items == IF nk \in DOMAIN grid.buckets
                      THEN grid.buckets[nk] ELSE << >>
         IN  items \o VisitCells(grid, key, k + 1)

\* for_each_neighbor looking only into the cell of pos.
ForEachNeighborOwnCell(grid, pos) ==
    Bind(CellKeyOf(grid, pos), LAMBDA key :
        IF key \in DOMAIN grid.buckets THEN grid.buckets[key] ELSE << >>)

\* for_each_neighbor: the indices handed to the callback, in call order.
ForEachNeighbor(grid, pos) ==
    Bind(CellKeyOf(grid, pos), LAMBDA key : VisitCells(grid, key, 1))


(***************************************************************************)
(* Simulation.  Agent arrays are functions on 0..count-1.                  *)
(***************************************************************************)
BoidCount(s) == Cardinality(DOMAIN s.pos_x)
Agents(s) == 0..(BoidCount(s) - 1)
BoidPos(s, i) == Vec2fNew(s.pos_x[i], s.pos_y[i])
BoidVel(s, i) == Vec2fNew(s.vel_x[i], s.vel_y[i])

RECURSIVE SeedLoop(_, _)
SeedLoop(s, k) ==
    IF k = 0 THEN s
    ELSE Bind(LcgNextU32(s.rng), LAMBDA rng :
         Bind(SampleFloor(SampleOf(rng), BoidCount(s)), LAMBDA idx :
            IF idx >= BoidCount(s) THEN Panic
            ELSE Bind([s EXCEPT !.rng = rng,
                                !.state[idx] = Infected,
                                !.infected_time[idx] = 0],
                      LAMBDA t : SeedLoop(t, k - 1))))

\* seed_infections drawing from the map's RandomState instead of self.rng.
SeedInfectionsFromEntropy(s) ==
    Bind([s EXCEPT !.rng = LcgNew(U32(s.grid.hasher * 65537))], LAMBDA t :
        SeedLoop(t, Min(t.cfg.initial_infected, BoidCount(t))))

\* seed_infections with max in place of min for the number of draws.
SeedInfectionsUpToCount(s) ==
    Bind(s, LAMBDA t : SeedLoop(t, Max(t.cfg.initial_infected, BoidCount(t))))

SeedInfections(s) ==
    Bind(s, LAMBDA t : SeedLoop(t, Min(t.cfg.initial_infected, BoidCount(t))))

\* The clamps of Simulation::new.
ClampNewCfg(cfg) ==
    LET nr == Max(cfg.neighbor_radius, Q)
    IN  [cfg EXCEPT !.neighbor_radius = nr,
                    !.separation_radius = Max(Min(cfg.separation_radius, nr), Q \div 2),
                    !.infection_radius = Max(cfg.infection_radius, Q),
                    !.infectious_period = Max(cfg.infectious_period, Q \div 10)]

RandomizeScale == 6

\* Simulation::new; hasher is what HashMap::new() draws for the grid's map.
New(count, cfg0, seed, hasher) ==
    Bind(LcgStream(LcgNew(seed), 4 * count), LAMBDA st :
    Bind(ClampNewCfg(cfg0), LAMBDA cfg :
    Bind(Randomize(NnPolicyNew(FEATURE_SIZE, HIDDEN_SIZE),
                   IF count = 0 THEN LcgNew(seed) ELSE st[4 * count],
                   RandomizeScale), LAMBDA r0 :
    Bind(Randomize(NnPolicyNew(FEATURE_SIZE, HIDDEN_SIZE), r0.rng, RandomizeScale),
         LAMBDA r1 :
    Bind(Randomize(NnPolicyNew(FEATURE_SIZE, HIDDEN_SIZE), r1.rng, RandomizeScale),
         LAMBDA r2 :
    LET U(i, d) == SampleOf(st[4 * i + d])
        Speed(i) == FxMul(cfg0.max_speed, 3 + SampleTimes(U(i, 4), 7))
        Vel(i) == Vec2fMul(UnitOfSample(U(i, 3)), Speed(i))
    IN  SeedInfections(
          [pos_x |-> [i \in 0..(count - 1) |-> SampleTimes(U(i, 1), cfg0.world_size.x)],
           pos_y |-> [i \in 0..(count - 1) |-> SampleTimes(U(i, 2), cfg0.world_size.y)],
           vel_x |-> [i \in 0..(count - 1) |-> Vel(i).x],
           vel_y |-> [i \in 0..(count - 1) |-> Vel(i).y],
           state |-> [i \in 0..(count - 1) |-> Susceptible],
           infected_time |-> [i \in 0..(count - 1) |-> 0],
           grid |-> SpatialHashNew(Max(cfg.neighbor_radius, cfg.infection_radius), hasher),
           cfg |-> cfg,
           rng |-> r2.rng,
           policies |-> << r0.policy, r1.policy, r2.policy >>,
           accel_x |-> [i \in 0..(count - 1) |-> 0],
           accel_y |-> [i \in 0..(count - 1) |-> 0],
           infected_buf |-> [i \in 0..(count - 1) |-> FALSE],
           hidden_buf |-> Zeros(HIDDEN_SIZE)]))))))

SetMotionParams(s, neighbor_radius, separation_radius, max_speed, max_force) ==
    LET nr == Max(neighbor_radius, Q)
        cfg == [s.cfg EXCEPT !.neighbor_radius = nr,
                             !.separation_radius = Max(Min(separation_radius, nr), Q \div 2),
                             !.max_speed = Max(max_speed, Q),
                             !.max_force = Max(max_force, Q)]
    IN  [s EXCEPT !.cfg = cfg,
                  !.grid = SetCellSize(s.grid, Max(cfg.neighbor_radius, cfg.infection_radius))]

\* set_infection_params without the call of set_cell_size.
SetInfectionParamsKeepingCells(s, infection_radius, infection_beta, infectious_period) ==
    [s EXCEPT !.cfg = [s.cfg EXCEPT !.infection_radius = Max(infection_radius, Q),
                                    !.infection_beta = Max(infection_beta, 0),
                                    !.infectious_period = Max(infectious_period, Q \div 10)]]

SetInfectionParams(s, infection_radius, infection_beta, infectious_period) ==
    LET cfg == [s.cfg EXCEPT !.infection_radius = Max(infection_radius, Q),
                             !.infection_beta = Max(infection_beta, 0),
                             !.infectious_period = Max(infectious_period, Q \div 10)]
    IN  [s EXCEPT !.cfg = cfg,
                  !.grid = SetCellSize(s.grid, Max(cfg.neighbor_radius, cfg.infection_radius))]

\* set_world_size that also wraps every position into the new world.
SetWorldSizeWrapping(s, size) ==
    [s EXCEPT !.cfg.world_size = size,
              !.pos_x = [i \in DOMAIN s.pos_x |-> s.pos_x[i] % size.x],
              !.pos_y = [i \in DOMAIN s.pos_y |-> s.pos_y[i] % size.y]]

SetWorldSize(s, size) == [s EXCEPT !.cfg.world_size = size]

PolicyFor(s, state) == s.policies[Idx(state) + 1]

SetPolicyForNextSlot(s, state, policy) ==
    [s EXCEPT !.policies[((Idx(state) + 1) % 3) + 1] = policy]

SetPolicyFor(s, state, policy) == [s EXCEPT !.policies[Idx(state) + 1] = policy]

\* A counts() that has no arm for Recovered.
CountsWithoutRecovered(s) ==
    [susceptible |-> Cardinality({i \in DOMAIN s.state : s.state[i] = Susceptible}),
     infected |-> Cardinality({i \in DOMAIN s.state : s.state[i] = Infected}),
     recovered |-> 0]

Counts(s) ==
    [susceptible |-> Cardinality({i \in DOMAIN s.state : s.state[i] = Susceptible}),
     infected |-> Cardinality({i \in DOMAIN s.state : s.state[i] = Infected}),
     recovered |-> Cardinality({i \in DOMAIN s.state : s.state[i] = Recovered})]

RECURSIVE InsertAll(_, _, _)
InsertAll(grid, s, i) ==
    IF i >= BoidCount(s) THEN grid
    ELSE Bind(Insert(grid, i, BoidPos(s, i)), LAMBDA g : InsertAll(g, s, i + 1))

\* rebuild_grid without self.grid.clear().
RebuildGridWithoutClear(s) ==
    Bind(s.grid, LAMBDA g : [s EXCEPT !.grid = InsertAll(g, s, 0)])

RebuildGrid(s) ==
    Bind(Clear(s.grid), LAMBDA g : [s EXCEPT !.grid = InsertAll(g, s, 0)])

WrapAxis(x, size) ==
    IF x < 0 THEN x + size
    ELSE IF x >= size THEN x - size
    ELSE x

WrapPosition(pos, size) == Vec2fNew(WrapAxis(pos.x, size.x), WrapAxis(pos.y, size.y))


(***************************************************************************)
(* features_for: the callback folded over the indices for_each_neighbor    *)
(* hands it, then the fourteen inputs.                                     *)
(***************************************************************************)
FxInfinity == 1000000

FeatureAcc0 ==
    [align_sum |-> Vec2fDefault,
     cohesion_sum |-> Vec2fDefault,
     separation_sum |-> Vec2fDefault,
     count |-> 0,
     sep_count |-> 0,
     infected_count |-> 0,
     nearest_infected_dist |-> FxInfinity,
     nearest_infected_dir |-> Vec2fDefault,
     infected_contact |-> FALSE]

\* The closure of features_for taking any Infected neighbour for a contact.
VisitNeighborContactWhenNear(s, idx, acc, j) ==
    IF idx = j THEN acc
    ELSE
    Bind(Vec2fSub(BoidPos(s, j), BoidPos(s, idx)), LAMBDA offset :
    Bind(Vec2fLength(offset), LAMBDA dist :
    LET other_pos == BoidPos(s, j)
        other_vel == BoidVel(s, j)
        near == dist < s.cfg.neighbor_radius
        sep == near /\ dist < s.cfg.separation_radius /\ dist > 0
        inf == near /\ s.state[j] = Infected
        closer == inf /\ dist < acc.nearest_infected_dist /\ dist > 0
    IN  [align_sum |-> IF near THEN Vec2fAdd(acc.align_sum, other_vel) ELSE acc.align_sum,
         cohesion_sum |-> IF near THEN Vec2fAdd(acc.cohesion_sum, other_pos)
                          ELSE acc.cohesion_sum,
         separation_sum |-> IF sep THEN Vec2fSub(acc.separation_sum, Vec2fDiv(offset, dist))
                            ELSE acc.separation_sum,
         count |-> IF near THEN acc.count + 1 ELSE acc.count,
         sep_count |-> IF sep THEN acc.sep_count + 1 ELSE acc.sep_count,
         infected_count |-> IF inf THEN acc.infected_count + 1 ELSE acc.infected_count,
         nearest_infected_dist |-> IF closer THEN dist ELSE acc.nearest_infected_dist,
         nearest_infected_dir |-> IF closer THEN Vec2fDiv(offset, dist)
                                  ELSE acc.nearest_infected_dir,
         infected_contact |-> acc.infected_contact
                              \/ (s.state[j] = Infected /\ near)]))

\* The closure of features_for without the test idx == j.
VisitNeighborCountingSelf(s, idx, acc, j) ==
    Bind(Vec2fSub(BoidPos(s, j), BoidPos(s, idx)), LAMBDA offset :
    Bind(Vec2fLength(offset), LAMBDA dist :
    LET other_pos == BoidPos(s, j)
        other_vel == BoidVel(s, j)
        near == dist < s.cfg.neighbor_radius
        sep == near /\ dist < s.cfg.separation_radius /\ dist > 0
        inf == near /\ s.state[j] = Infected
        closer == inf /\ dist < acc.nearest_infected_dist /\ dist > 0
    IN  [align_sum |-> IF near THEN Vec2fAdd(acc.align_sum, other_vel) ELSE acc.align_sum,
         cohesion_sum |-> IF near THEN Vec2fAdd(acc.cohesion_sum, other_pos)
                          ELSE acc.cohesion_sum,
         separation_sum |-> IF sep THEN Vec2fSub(acc.separation_sum, Vec2fDiv(offset, dist))
                            ELSE acc.separation_sum,
         count |-> IF near THEN acc.count + 1 ELSE acc.count,
         sep_count |-> IF sep THEN acc.sep_count + 1 ELSE acc.sep_count,
         infected_count |-> IF inf THEN acc.infected_count + 1 ELSE acc.infected_count,
         nearest_infected_dist |-> IF closer THEN dist ELSE acc.nearest_infected_dist,
         nearest_infected_dir |-> IF closer THEN Vec2fDiv(offset, dist)
                                  ELSE acc.nearest_infected_dir,
         infected_contact |-> acc.infected_contact
                              \/ (s.state[j] = Infected /\ dist < s.cfg.infection_radius)]))

\* One call of the closure of features_for, for neighbor index j.
VisitNeighbor(s, idx, acc, j) ==
    IF idx = j THEN acc
    ELSE
    Bind(Vec2fSub(BoidPos(s, j), BoidPos(s, idx)), LAMBDA offset :
    Bind(Vec2fLength(offset), LAMBDA dist :
    LET other_pos == BoidPos(s, j)
        other_vel == BoidVel(s, j)
        near == dist < s.cfg.neighbor_radius
        sep == near /\ dist < s.cfg.separation_radius /\ dist > 0
        inf == near /\ s.state[j] = Infected
        closer == inf /\ dist < acc.nearest_infected_dist /\ dist > 0
    IN  [align_sum |-> IF near THEN Vec2fAdd(acc.align_sum, other_vel) ELSE acc.align_sum,
         cohesion_sum |-> IF near THEN Vec2fAdd(acc.cohesion_sum, other_pos)
                          ELSE acc.cohesion_sum,
         separation_sum |-> IF sep THEN Vec2fSub(acc.separation_sum, Vec2fDiv(offset, dist))
                            ELSE acc.separation_sum,
         count |-> IF near THEN acc.count + 1 ELSE acc.count,
         sep_count |-> IF sep THEN acc.sep_count + 1 ELSE acc.sep_count,
         infected_count |-> IF inf THEN acc.infected_count + 1 ELSE acc.infected_count,
         nearest_infected_dist |-> IF closer THEN dist ELSE acc.nearest_infected_dist,
         nearest_infected_dir |-> IF closer THEN Vec2fDiv(offset, dist)
                                  ELSE acc.nearest_infected_dir,
         infected_contact |-> acc.infected_contact
                              \/ (s.state[j] = Infected /\ dist < s.cfg.infection_radius)]))

RECURSIVE VisitAll(_, _, _, _, _)
VisitAll(s, idx, acc, visited, k) ==
    IF k > Len(visited) THEN acc
    ELSE Bind(VisitNeighbor(s, idx, acc, visited[k]),
              LAMBDA next : VisitAll(s, idx, next, visited, k + 1))

NeighborScan(s, idx) ==
    Bind(ForEachNeighbor(s.grid, BoidPos(s, idx)),
         LAMBDA visited : VisitAll(s, idx, FeatureAcc0, visited, 1))

FeaturesFor(s, idx) ==
    Bind(NeighborScan(s, idx), LAMBDA a :
    LET boid_pos == BoidPos(s, idx)
        boid_vel == BoidVel(s, idx)
        speed == Vec2fLength(boid_vel)
        align == Vec2fDiv(Vec2fDiv(a.align_sum, a.count * Q), s.cfg.max_speed)
        center == Vec2fDiv(a.cohesion_sum, a.count * Q)
        cohesion == Vec2fDiv(Vec2fSub(center, boid_pos), s.cfg.neighbor_radius)
        sep == Vec2fDiv(a.separation_sum, a.sep_count * Q)
        found == a.nearest_infected_dist # FxInfinity
    IN  [inputs |->
           << FxDiv(boid_vel.x, s.cfg.max_speed),
              FxDiv(boid_vel.y, s.cfg.max_speed),
              FxClamp(FxDiv(speed, s.cfg.max_speed), 0, Q),
              IF a.count > 0 THEN align.x ELSE 0,
              IF a.count > 0 THEN align.y ELSE 0,
              IF a.count > 0 THEN cohesion.x ELSE 0,
              IF a.count > 0 THEN cohesion.y ELSE 0,
              IF a.sep_count > 0 THEN sep.x ELSE 0,
              IF a.sep_count > 0 THEN sep.y ELSE 0,
              FxClamp(FxDiv(a.count * Q, 20 * Q), 0, Q),
              IF found THEN a.nearest_infected_dir.x ELSE 0,
              IF found THEN a.nearest_infected_dir.y ELSE 0,
              IF found THEN FxClamp(FxDiv(a.nearest_infected_dist, s.cfg.infection_radius), 0, Q)
              ELSE Q,
              IF a.count > 0 THEN FxDiv(a.infected_count * Q, a.count * Q) ELSE 0 >>,
         infected_contact |-> a.infected_contact])

(***************************************************************************)
(* step(dt), in the order of its statements: the prologue, then one        *)
(* iteration of the read loop, of the integration loop and of the          *)
(* epidemic loop per agent.  frame holds the locals of the running call.   *)
(***************************************************************************)
IdleFrame == [phase |-> "idle", i |-> 0, dt |-> 0, infect_p |-> 0, max_speed |-> 0]

\* The loop position after iteration f.i of the loop f.phase over n agents.
FirstPhase(n) == IF n = 0 THEN "idle" ELSE "read"
PhaseAfter(phase) ==
    CASE phase = "read" -> "integrate"
      [] phase = "integrate" -> "apply"
      [] phase = "apply" -> "idle"

\* The prologue of step: rebuild_grid and the two buffers cleared.
StepPrologue(s) ==
    Bind(RebuildGrid(s), LAMBDA g :
        [g EXCEPT !.accel_x = [i \in Agents(s) |-> 0],
                  !.accel_y = [i \in Agents(s) |-> 0],
                  !.infected_buf = [i \in Agents(s) |-> FALSE]])

FrameBegin(s, dt) ==
    IF BoidCount(s) = 0 THEN IdleFrame
    ELSE [phase |-> "read", i |-> 0, dt |-> dt,
          infect_p |-> OneMinusExpNeg(FxMul(s.cfg.infection_beta, dt)),
          max_speed |-> 0]

FrameAdvance(s, f) ==
    IF f.i + 1 < BoidCount(s) THEN [f EXCEPT !.i = f.i + 1]
    ELSE IF f.phase = "apply" THEN IdleFrame
    ELSE [f EXCEPT !.phase = PhaseAfter(f.phase), !.i = 0,
                   !.max_speed = IF f.phase = "read" THEN s.cfg.max_speed ELSE @]

\* The read loop's body with rng.next_f32() < infect_p tested first.
ReadAgentDrawingFirst(s, f) ==
    Bind(FeaturesFor(s, f.i), LAMBDA ff :
    Bind(s.policies[Idx(s.state[f.i]) + 1], LAMBDA policy :
    Bind(ForwardInto(policy, ff.inputs, s.hidden_buf), LAMBDA fw :
    Bind(Vec2fLimit(Vec2fMul(fw.out, s.cfg.max_force), s.cfg.max_force), LAMBDA accel :
    LET i == f.i
        draws == s.state[i] = Susceptible /\ ff.infected_contact
        rng == LcgNextU32(s.rng)
        hit == draws /\ SampleLess(SampleOf(rng), f.infect_p)
    IN  [s EXCEPT !.hidden_buf = fw.hidden,
                  !.accel_x[i] = accel.x,
                  !.accel_y[i] = accel.y,
                  !.rng = rng,
                  !.infected_buf[i] = IF hit THEN TRUE ELSE @]))))

\* The read loop's body without the test that the agent is Susceptible.
ReadAgentAnyState(s, f) ==
    Bind(FeaturesFor(s, f.i), LAMBDA ff :
    Bind(s.policies[Idx(s.state[f.i]) + 1], LAMBDA policy :
    Bind(ForwardInto(policy, ff.inputs, s.hidden_buf), LAMBDA fw :
    Bind(Vec2fLimit(Vec2fMul(fw.out, s.cfg.max_force), s.cfg.max_force), LAMBDA accel :
    LET i == f.i
        draws == ff.infected_contact
        rng == LcgNextU32(s.rng)
        hit == draws /\ SampleLess(SampleOf(rng), f.infect_p)
    IN  [s EXCEPT !.hidden_buf = fw.hidden,
                  !.accel_x[i] = accel.x,
                  !.accel_y[i] = accel.y,
                  !.rng = IF draws THEN rng ELSE @,
                  !.infected_buf[i] = IF hit THEN TRUE ELSE @]))))

\* The read loop's body infecting in place instead of marking infected_buf.
ReadAgentInPlace(s, f) ==
    Bind(FeaturesFor(s, f.i), LAMBDA ff :
    Bind(s.policies[Idx(s.state[f.i]) + 1], LAMBDA policy :
    Bind(ForwardInto(policy, ff.inputs, s.hidden_buf), LAMBDA fw :
    Bind(Vec2fLimit(Vec2fMul(fw.out, s.cfg.max_force), s.cfg.max_force), LAMBDA accel :
    LET i == f.i
        draws == s.state[i] = Susceptible /\ ff.infected_contact
        rng == LcgNextU32(s.rng)
        hit == draws /\ SampleLess(SampleOf(rng), f.infect_p)
    IN  [s EXCEPT !.hidden_buf = fw.hidden,
                  !.accel_x[i] = accel.x,
                  !.accel_y[i] = accel.y,
                  !.rng = IF draws THEN rng ELSE @,
                  !.state[i] = IF hit THEN Infected ELSE @,
                  !.infected_time[i] = IF hit THEN 0 ELSE @]))))

\* The read loop's body without the test of infected_contact.
ReadAgentWithoutContact(s, f) ==
    Bind(FeaturesFor(s, f.i), LAMBDA ff :
    Bind(s.policies[Idx(s.state[f.i]) + 1], LAMBDA policy :
    Bind(ForwardInto(policy, ff.inputs, s.hidden_buf), LAMBDA fw :
    Bind(Vec2fLimit(Vec2fMul(fw.out, s.cfg.max_force), s.cfg.max_force), LAMBDA accel :
    LET i == f.i
        draws == s.state[i] = Susceptible
        rng == LcgNextU32(s.rng)
        hit == draws /\ SampleLess(SampleOf(rng), f.infect_p)
    IN  [s EXCEPT !.hidden_buf = fw.hidden,
                  !.accel_x[i] = accel.x,
                  !.accel_y[i] = accel.y,
                  !.rng = IF draws THEN rng ELSE @,
                  !.infected_buf[i] = IF hit THEN TRUE ELSE @]))))

\* The read loop's body choosing the policy of the state the agent ends the
\* step with.
ReadAgentPolicyOfNextState(s, f) ==
    Bind(FeaturesFor(s, f.i), LAMBDA ff :
    LET i == f.i
        draws == s.state[i] = Susceptible /\ ff.infected_contact
        rng == LcgNextU32(s.rng)
        hit == draws /\ SampleLess(SampleOf(rng), f.infect_p)
        ends == s.state[i] = Infected
                /\ s.infected_time[i] + f.dt >= s.cfg.infectious_period
    IN
    Bind(s.policies[Idx(IF hit THEN Infected
                        ELSE IF ends THEN Recovered ELSE s.state[i]) + 1], LAMBDA policy :
    Bind(ForwardInto(policy, ff.inputs, s.hidden_buf), LAMBDA fw :
    Bind(Vec2fLimit(Vec2fMul(fw.out, s.cfg.max_force), s.cfg.max_force), LAMBDA accel :
        [s EXCEPT !.hidden_buf = fw.hidden,
                  !.accel_x[i] = accel.x,
                  !.accel_y[i] = accel.y,
                  !.rng = IF draws THEN rng ELSE @,
                  !.infected_buf[i] = IF hit THEN TRUE ELSE @]))))

\* One iteration of the first loop of step.
ReadAgent(s, f) ==
    Bind(FeaturesFor(s, f.i), LAMBDA ff :
    Bind(s.policies[Idx(s.state[f.i]) + 1], LAMBDA policy :
    Bind(ForwardInto(policy, ff.inputs, s.hidden_buf), LAMBDA fw :
    Bind(Vec2fLimit(Vec2fMul(fw.out, s.cfg.max_force), s.cfg.max_force), LAMBDA accel :
    LET i == f.i
        draws == s.state[i] = Susceptible /\ ff.infected_contact
        rng == LcgNextU32(s.rng)
        hit == draws /\ SampleLess(SampleOf(rng), f.infect_p)
    IN  [s EXCEPT !.hidden_buf = fw.hidden,
                  !.accel_x[i] = accel.x,
                  !.accel_y[i] = accel.y,
                  !.rng = IF draws THEN rng ELSE @,
                  !.infected_buf[i] = IF hit THEN TRUE ELSE @]))))

\* One iteration of the second loop of step.
IntegrateAgent(s, f) ==
    LET i == f.i
    IN
    Bind(s.vel_x[i] + FxMul(s.accel_x[i], f.dt), LAMBDA vx :
    Bind(s.vel_y[i] + FxMul(s.accel_y[i], f.dt), LAMBDA vy :
    Bind(vx * vx + vy * vy, LAMBDA speed_sq :
    Bind(IF speed_sq > f.max_speed * f.max_speed
         THEN FxDiv(f.max_speed, RSqrt(speed_sq)) ELSE Q, LAMBDA scale :
    LET over == speed_sq > f.max_speed * f.max_speed
        vx2 == IF over THEN FxMul(vx, scale) ELSE vx
        vy2 == IF over THEN FxMul(vy, scale) ELSE vy
        wrapped == WrapPosition(Vec2fNew(s.pos_x[i] + FxMul(vx2, f.dt),
                                         s.pos_y[i] + FxMul(vy2, f.dt)),
                                s.cfg.world_size)
    IN  [s EXCEPT !.vel_x[i] = vx2, !.vel_y[i] = vy2,
                  !.pos_x[i] = wrapped.x, !.pos_y[i] = wrapped.y]))))

\* The third loop's body recovering only once the timer exceeds the period.
ApplyAgentStrictlyAfter(s, f) ==
    LET i == f.i
        st1 == IF s.infected_buf[i] THEN Infected ELSE s.state[i]
        t1 == IF s.infected_buf[i] THEN 0 ELSE s.infected_time[i]
        t2 == IF st1 = Infected THEN t1 + f.dt ELSE t1
        st2 == IF st1 = Infected /\ t2 > s.cfg.infectious_period THEN Recovered ELSE st1
    IN  [s EXCEPT !.state[i] = st2, !.infected_time[i] = t2]

\* The third loop's body starting the timer of an agent infected in this
\* step at the next step.
ApplyAgentTimingFromNextStep(s, f) ==
    LET i == f.i
        st1 == IF s.infected_buf[i] THEN Infected ELSE s.state[i]
        t1 == IF s.infected_buf[i] THEN 0 ELSE s.infected_time[i]
        t2 == IF st1 = Infected /\ ~s.infected_buf[i] THEN t1 + f.dt ELSE t1
        st2 == IF st1 = Infected /\ ~s.infected_buf[i] /\ t2 >= s.cfg.infectious_period
               THEN Recovered ELSE st1
    IN  [s EXCEPT !.state[i] = st2, !.infected_time[i] = t2]

\* The third loop's body advancing the timer of every agent, Infected or not.
ApplyAgentTimingAll(s, f) ==
    LET i == f.i
        st1 == IF s.infected_buf[i] THEN Infected ELSE s.state[i]
        t1 == IF s.infected_buf[i] THEN 0 ELSE s.infected_time[i]
        t2 == t1 + f.dt
        st2 == IF st1 = Infected /\ t2 >= s.cfg.infectious_period THEN Recovered ELSE st1
    IN  [s EXCEPT !.state[i] = st2, !.infected_time[i] = t2]

\* One iteration of the third loop of step.
ApplyAgent(s, f) ==
    LET i == f.i
        st1 == IF s.infected_buf[i] THEN Infected ELSE s.state[i]
        t1 == IF s.infected_buf[i] THEN 0 ELSE s.infected_time[i]
        t2 == IF st1 = Infected THEN t1 + f.dt ELSE t1
        st2 == IF st1 = Infected /\ t2 >= s.cfg.infectious_period THEN Recovered ELSE st1
    IN  [s EXCEPT !.state[i] = st2, !.infected_time[i] = t2]


(***************************************************************************)
(* The inputs the model draws.                                             *)
(***************************************************************************)
MaxAgents == 3
MaxSteps == 3
MaxSetterCalls == 1
MaxHasher == 1

AgentCounts == {MaxAgents}
Hashers == 0..MaxHasher
Seeds == {U32(1), U32(1337), U32(1338), U32(1340)}

\* A valid configuration, and one whose every value is invalid.
GoodCfg ==
    [world_size |-> Vec2fNew(80, 60), max_speed |-> 20, max_force |-> 10,
     neighbor_radius |-> 30, separation_radius |-> 10, infection_radius |-> 20,
     infection_beta |-> 12, infectious_period |-> 20, initial_infected |-> 1]
BadCfg ==
    [world_size |-> Vec2fNew(80, 60), max_speed |-> -10, max_force |-> 0,
     neighbor_radius |-> 0, separation_radius |-> -10, infection_radius |-> -20,
     infection_beta |-> -10, infectious_period |-> 0, initial_infected |-> 2]
Configs == {GoodCfg, BadCfg}

Dts == {10, 50}
MotionArgs == {<< 50, 80, 30, 20 >>, << 0, -10, 0, -10 >>}
InfectionArgs == {<< 60, 30, 10 >>, << -10, -10, 0 >>}
WorldSizes == {Vec2fNew(40, 30)}
PolicyArgs == {NnPolicyNew(FEATURE_SIZE, HIDDEN_SIZE)}

(***************************************************************************)
(* State.  sim is the Simulation, frame the locals of a running step, twin *)
(* a second instance driven by the same calls (absent in Spec).  History:  *)
(* built holds the arguments of Simulation::new, snap the agent arrays as  *)
(* the last step found them, last the call that returned last, steps and   *)
(* calls the numbers of step and setter calls made.                        *)
(***************************************************************************)
VARIABLES sim, frame, twin, built, snap, last, steps, calls, gen, trainer, codec

vars == << sim, frame, twin, built, snap, last, steps, calls, gen, trainer, codec >>

AgentView(s) ==
    [pos_x |-> s.pos_x, pos_y |-> s.pos_y, vel_x |-> s.vel_x, vel_y |-> s.vel_y,
     state |-> s.state, infected_time |-> s.infected_time]

NoTwin == [absent |-> TRUE]
HasTwin == "absent" \notin DOMAIN twin

\* No generator on its own and no trainer: the engine alone is driven.
NoGen == [absent |-> TRUE]
NoTrainer == [absent |-> TRUE]
NoCodec == [absent |-> TRUE]

InitHistory ==
    /\ frame = IdleFrame
    /\ snap = AgentView(sim)
    /\ last = "new"
    /\ steps = 0
    /\ calls = 0
    /\ gen = NoGen
    /\ trainer = NoTrainer
    /\ codec = NoCodec

Init ==
    /\ \E count \in AgentCounts, cfg \in Configs, seed \in Seeds, hasher \in Hashers :
        \E made \in {New(count, cfg, seed, hasher)} :
          /\ ~IsPanic(made)
          /\ sim = made
          /\ built = [count |-> count, cfg |-> cfg, seed |-> seed]
    /\ twin = NoTwin
    /\ InitHistory

\* Two instances built with the same count, configuration and seed; their
\* maps drew different hashers.
PairInit ==
    /\ \E count \in AgentCounts, cfg \in Configs, seed \in Seeds :
        \E h1 \in Hashers : \E h2 \in Hashers \ {h1} :
         \E made \in {New(count, cfg, seed, h1)}, other \in {New(count, cfg, seed, h2)} :
          /\ ~IsPanic(made)
          /\ sim = made
          /\ twin = [sim |-> other, frame |-> IdleFrame]
          /\ built = [count |-> count, cfg |-> cfg, seed |-> seed]
    /\ InitHistory

Idle == frame.phase = "idle"

\* step(dt) is entered.
StepEnter(dt) ==
    /\ Idle
    /\ steps < MaxSteps
    /\ sim' = StepPrologue(sim)
    /\ frame' = FrameBegin(sim, dt)
    /\ twin' = IF HasTwin
               THEN [sim |-> StepPrologue(twin.sim), frame |-> FrameBegin(twin.sim, dt)]
               ELSE twin
    /\ snap' = AgentView(sim)
    /\ last' = IF frame'.phase = "idle" THEN "step" ELSE last
    /\ steps' = steps + 1
    /\ UNCHANGED << built, calls >>
    /\ UNCHANGED << gen, trainer, codec >>

StepRead ==
    /\ frame.phase = "read"
    /\ sim' = ReadAgent(sim, frame)
    /\ frame' = FrameAdvance(sim, frame)
    /\ twin' = IF HasTwin
               THEN [sim |-> ReadAgent(twin.sim, twin.frame),
                     frame |-> FrameAdvance(twin.sim, twin.frame)]
               ELSE twin
    /\ UNCHANGED << built, snap, last, steps, calls >>
    /\ UNCHANGED << gen, trainer, codec >>

StepIntegrate ==
    /\ frame.phase = "integrate"
    /\ sim' = IntegrateAgent(sim, frame)
    /\ frame' = FrameAdvance(sim, frame)
    /\ twin' = IF HasTwin
               THEN [sim |-> IntegrateAgent(twin.sim, twin.frame),
                     frame |-> FrameAdvance(twin.sim, twin.frame)]
               ELSE twin
    /\ UNCHANGED << built, snap, last, steps, calls >>
    /\ UNCHANGED << gen, trainer, codec >>

\* The last iteration returns from step.
StepApply ==
    /\ frame.phase = "apply"
    /\ sim' = ApplyAgent(sim, frame)
    /\ frame' = FrameAdvance(sim, frame)
    /\ twin' = IF HasTwin
               THEN [sim |-> ApplyAgent(twin.sim, twin.frame),
                     frame |-> FrameAdvance(twin.sim, twin.frame)]
               ELSE twin
    /\ last' = IF frame'.phase = "idle" THEN "step" ELSE last
    /\ UNCHANGED << built, snap, steps, calls >>
    /\ UNCHANGED << gen, trainer, codec >>

CallSetMotionParams(a) ==
    /\ Idle
    /\ calls < MaxSetterCalls
    /\ sim' = SetMotionParams(sim, a[1], a[2], a[3], a[4])
    /\ twin' = IF HasTwin
               THEN [twin EXCEPT !.sim = SetMotionParams(twin.sim, a[1], a[2], a[3], a[4])]
               ELSE twin
    /\ last' = "set_motion_params"
    /\ calls' = calls + 1
    /\ UNCHANGED << frame, built, snap, steps >>
    /\ UNCHANGED << gen, trainer, codec >>

CallSetInfectionParams(a) ==
    /\ Idle
    /\ calls < MaxSetterCalls
    /\ sim' = SetInfectionParams(sim, a[1], a[2], a[3])
    /\ twin' = IF HasTwin
               THEN [twin EXCEPT !.sim = SetInfectionParams(twin.sim, a[1], a[2], a[3])]
               ELSE twin
    /\ last' = "set_infection_params"
    /\ calls' = calls + 1
    /\ UNCHANGED << frame, built, snap, steps >>
    /\ UNCHANGED << gen, trainer, codec >>

CallSetWorldSize(size) ==
    /\ Idle
    /\ calls < MaxSetterCalls
    /\ sim' = SetWorldSize(sim, size)
    /\ twin' = IF HasTwin THEN [twin EXCEPT !.sim = SetWorldSize(twin.sim, size)] ELSE twin
    /\ last' = "set_world_size"
    /\ calls' = calls + 1
    /\ UNCHANGED << frame, built, snap, steps >>
    /\ UNCHANGED << gen, trainer, codec >>

CallSetPolicyFor(state, policy) ==
    /\ Idle
    /\ calls < MaxSetterCalls
    /\ sim' = SetPolicyFor(sim, state, policy)
    /\ twin' = IF HasTwin
               THEN [twin EXCEPT !.sim = SetPolicyFor(twin.sim, state, policy)]
               ELSE twin
    /\ last' = "set_policy_for"
    /\ calls' = calls + 1
    /\ UNCHANGED << frame, built, snap, steps >>
    /\ UNCHANGED << gen, trainer, codec >>

Next ==
    \/ \E dt \in Dts : StepEnter(dt)
    \/ StepRead
    \/ StepIntegrate
    \/ StepApply
    \/ \E a \in MotionArgs : CallSetMotionParams(a)
    \/ \E a \in InfectionArgs : CallSetInfectionParams(a)
    \/ \E size \in WorldSizes : CallSetWorldSize(size)
    \/ \E state \in HealthState, policy \in PolicyArgs : CallSetPolicyFor(state, policy)

Spec == Init /\ [][Next]_vars

PairSpec == PairInit /\ [][Next]_vars

Stepped == Idle /\ last = "step"

(***************************************************************************)
(* Population conservation.                                                *)
(***************************************************************************)
\* C1: in every reachable state the three numbers counts() returns add up to
\* boid_count(), and boid_count() is the agent count given to Simulation::new.
PopulationConserved ==
    LET c == Counts(sim)
    IN  /\ c.susceptible + c.infected + c.recovered = BoidCount(sim)
        /\ BoidCount(sim) = built.count

\* A step has returned with agents in each of two compartments, one of them
\* Recovered.
PopulationConservedWitness ==
    /\ Stepped
    /\ \E i \in Agents(sim) : sim.state[i] = Recovered /\ snap.state[i] # Recovered
    /\ \E i \in Agents(sim) : sim.state[i] # Recovered

(***************************************************************************)
(* The epidemic only advances.                                             *)
(***************************************************************************)
Rank(state) == Idx(state)

\* C2: over every transition each agent's health state stays or advances along
\* Susceptible -> Infected -> Recovered; so an Infected agent never becomes
\* Susceptible again and a Recovered agent stays Recovered.
HealthOnlyAdvances ==
    [][\A i \in Agents(sim) : Rank(sim'.state[i]) >= Rank(sim.state[i])]_vars

\* A step has returned that found a Recovered agent within infection_radius
\* of an Infected one, and left it Recovered.
HealthOnlyAdvancesWitness ==
    /\ Stepped
    /\ \E i \in Agents(sim), j \in Agents(sim) :
          /\ snap.state[i] = Recovered
          /\ sim.state[i] = Recovered
          /\ snap.state[j] = Infected
          /\ Vec2fLength(Vec2fNew(snap.pos_x[j] - snap.pos_x[i],
                                  snap.pos_y[j] - snap.pos_y[i]))
                < sim.cfg.infection_radius

(***************************************************************************)
(* Reads before writes.                                                    *)
(***************************************************************************)
\* C3: while the read loop of step runs, no agent's position, velocity, health
\* state or infected_time has been written: every read of the pass sees the
\* arrays as the step found them.
ReadsSeeStartOfStep == frame.phase = "read" => AgentView(sim) = snap

\* The read loop is past an agent it marked for infection, and that agent is
\* still Susceptible.
ReadsSeeStartOfStepWitness ==
    /\ frame.phase = "read"
    /\ \E j \in Agents(sim) :
          j < frame.i /\ sim.infected_buf[j] /\ sim.state[j] = Susceptible

(***************************************************************************)
(* Determinism (PairSpec: a second instance driven by the same calls).     *)
(***************************************************************************)
\* C4: two instances built with the same agent count, configuration and seed
\* and driven by the same calls have identical positions, velocities, health
\* states and infected_time for every agent after every step (and at every
\* point in between).
TwinsAgree == HasTwin => AgentView(twin.sim) = AgentView(sim)

\* Two instances whose maps drew different hashers have made a setter call
\* and several steps, and the last step infected an agent on a generator draw.
TwinsAgreeWitness ==
    /\ HasTwin
    /\ Stepped
    /\ twin.sim.grid.hasher # sim.grid.hasher
    /\ twin.sim.rng = sim.rng
    /\ steps > 1
    /\ calls > 0
    /\ \E i \in Agents(sim) : snap.state[i] = Susceptible /\ sim.state[i] = Infected

(***************************************************************************)
(* The read pass in another visiting order.                                *)
(***************************************************************************)
\* The read loop of step run over the agents in the given order.
RECURSIVE ReadPassFrom(_, _, _, _)
ReadPassFrom(s, f, order, k) ==
    IF k > Len(order) THEN s
    ELSE Bind(ReadAgent(s, [f EXCEPT !.i = order[k]]),
              LAMBDA t : ReadPassFrom(t, f, order, k + 1))

IndexOrder(s) == [k \in 1..BoidCount(s) |-> k - 1]

\* Every permutation of the agent indices.
VisitOrders(s) ==
    {order \in [1..BoidCount(s) -> Agents(s)] :
        \A a, b \in 1..BoidCount(s) : order[a] = order[b] => a = b}

Marked(s) == {i \in Agents(s) : s.infected_buf[i]}

AtReadStart == frame.phase = "read" /\ frame.i = 0

\* C5 (as amended): from the snapshot and generator state a step starts its
\* read pass with, visiting the agents in any permutation of index order
\* yields the same acceleration for every agent, the same final generator
\* state and the same number of agents marked for deferred infection.
ReadPassOrderIndependentAccel ==
    AtReadStart =>
        \A base \in {ReadPassFrom(sim, frame, IndexOrder(sim), 1)} :
            \A order \in VisitOrders(sim) :
                \A other \in {ReadPassFrom(sim, frame, order, 1)} :
                    /\ other.accel_x = base.accel_x
                    /\ other.accel_y = base.accel_y
                    /\ other.rng = base.rng
                    /\ Cardinality(Marked(other)) = Cardinality(Marked(base))

\* A read pass starts in which two agents draw a sample and one is marked.
ReadPassOrderIndependentAccelWitness ==
    /\ AtReadStart
    /\ \E base \in {ReadPassFrom(sim, frame, IndexOrder(sim), 1)} :
          /\ Cardinality(Marked(base)) = 1
          /\ Cardinality({i \in Agents(sim) :
                            /\ sim.state[i] = Susceptible
                            /\ FeaturesFor(sim, i).infected_contact}) = 2

\* C5 (as stated): visiting the agents in any permutation yields the same
\* acceleration for every agent and the same set of agents marked for
\* deferred infection.
ReadPassOrderIndependent ==
    AtReadStart =>
        \A base \in {ReadPassFrom(sim, frame, IndexOrder(sim), 1)} :
            \A order \in VisitOrders(sim) :
                \A other \in {ReadPassFrom(sim, frame, order, 1)} :
                    /\ other.accel_x = base.accel_x
                    /\ other.accel_y = base.accel_y
                    /\ Marked(other) = Marked(base)

(***************************************************************************)
(* The grid against a brute-force scan.                                    *)
(***************************************************************************)
Dist(s, i, j) == Vec2fLength(Vec2fSub(BoidPos(s, j), BoidPos(s, i)))

Visited(s, i) ==
    Bind(ForEachNeighbor(s.grid, BoidPos(s, i)), LAMBDA v : {v[k] : k \in 1..Len(v)})

BruteNeighbors(s, i, R) == {j \in Agents(s) : j # i /\ Dist(s, i, j) < R}

\* The grid was rebuilt for the positions the agents have now.
GridFresh == frame.phase = "read"

\* C6: once step has rebuilt the grid, for every agent i and every radius
\* R <= cell_size, the indices j # i that for_each_neighbor(position of i)
\* visits and that pass dist(i, j) < R are those a scan over all agents finds
\* with the same test.
GridMatchesBruteForce ==
    GridFresh =>
        \A i \in Agents(sim) :
            \A v \in {Visited(sim, i)}, d \in {[j \in Agents(sim) |-> Dist(sim, i, j)]} :
                \A R \in 0..sim.grid.cell_size :
                    {j \in v : j # i /\ d[j] < R} = {j \in Agents(sim) : j # i /\ d[j] < R}

\* A rebuilt grid in which an agent has a neighbor within cell_size in another
\* cell, and another agent lies outside its 3x3 block.
GridMatchesBruteForceWitness ==
    /\ GridFresh
    /\ \E i \in Agents(sim), j \in Agents(sim), k \in Agents(sim) :
          /\ j # i
          /\ Dist(sim, i, j) < sim.grid.cell_size
          /\ CellKeyOf(sim.grid, BoidPos(sim, j)) # CellKeyOf(sim.grid, BoidPos(sim, i))
          /\ k \notin Visited(sim, i)

(***************************************************************************)
(* What for_each_neighbor visits, and the self-skip of features_for.       *)
(***************************************************************************)
InBlock(grid, p, q) ==
    LET a == CellKeyOf(grid, p)
        b == CellKeyOf(grid, q)
    IN  Abs(a.x - b.x) <= 1 /\ Abs(a.y - b.y) <= 1

Calls(v, j) == Cardinality({k \in 1..Len(v) : v[k] = j})

\* C7: for_each_neighbor(position of i) calls the callback exactly once for
\* every agent stored in the 3x3 block of cells around the cell of i, i
\* included, and for no other; features_for skips i, so its neighbor count
\* and its infected contact come from the other agents only.
VisitsBlockOnceSkipsSelf ==
    GridFresh =>
        \A i \in Agents(sim) :
            \A v \in {ForEachNeighbor(sim.grid, BoidPos(sim, i))} :
                /\ \A k \in 1..Len(v) : v[k] \in Agents(sim)
                /\ \A j \in Agents(sim) :
                      Calls(v, j) =
                        IF InBlock(sim.grid, BoidPos(sim, i), BoidPos(sim, j)) THEN 1 ELSE 0
                /\ Calls(v, i) = 1
                /\ \A a \in {NeighborScan(sim, i)} :
                      /\ a.count = Cardinality(BruteNeighbors(sim, i, sim.cfg.neighbor_radius))
                      /\ a.infected_contact <=>
                            \E j \in BruteNeighbors(sim, i, sim.cfg.infection_radius) :
                                sim.state[j] = Infected

\* A rebuilt grid in which an Infected agent is the only agent of its block,
\* and another agent's block holds several agents.
VisitsBlockOnceSkipsSelfWitness ==
    /\ GridFresh
    /\ \E i \in Agents(sim) :
          /\ sim.state[i] = Infected
          /\ ForEachNeighbor(sim.grid, BoidPos(sim, i)) = << i >>
          /\ ~NeighborScan(sim, i).infected_contact
    /\ \E i \in Agents(sim) : Len(ForEachNeighbor(sim.grid, BoidPos(sim, i))) > 1

(***************************************************************************)
(* Cell size.                                                              *)
(***************************************************************************)
\* C8: in every state the grid's cell_size is the larger of the stored
\* neighbor_radius and infection_radius, so neighbor_radius, separation_radius
\* and infection_radius are all <= cell_size.
CellSizeCoversRadii ==
    /\ sim.grid.cell_size = Max(sim.cfg.neighbor_radius, sim.cfg.infection_radius)
    /\ sim.cfg.neighbor_radius <= sim.grid.cell_size
    /\ sim.cfg.separation_radius <= sim.grid.cell_size
    /\ sim.cfg.infection_radius <= sim.grid.cell_size

\* set_infection_params has returned with an infection_radius above
\* neighbor_radius and another than the one the instance was built with.
CellSizeCoversRadiiWitness ==
    /\ last = "set_infection_params"
    /\ sim.cfg.infection_radius > sim.cfg.neighbor_radius
    /\ sim.cfg.infection_radius # ClampNewCfg(built.cfg).infection_radius
    /\ sim.grid.cell_size = sim.cfg.infection_radius

(***************************************************************************)
(* Positions after a step.                                                 *)
(***************************************************************************)
\* C9: when step has returned, every agent's position lies in
\* [0, world_size.x) on the x axis and in [0, world_size.y) on the y axis,
\* whatever dt, max_speed and the world size set before the step.
PositionsInWorld ==
    Stepped =>
        \A i \in Agents(sim) :
            /\ 0 <= sim.pos_x[i] /\ sim.pos_x[i] < sim.cfg.world_size.x
            /\ 0 <= sim.pos_y[i] /\ sim.pos_y[i] < sim.cfg.world_size.y

(***************************************************************************)
(* Clamped configuration.                                                  *)
(***************************************************************************)
\* C10: after Simulation::new and after every setter the stored configuration
\* has neighbor_radius >= 1, infection_radius >= 1, separation_radius >= 0.5,
\* max_speed >= 1, max_force >= 1, infection_beta >= 0 and
\* infectious_period >= 0.1.
ConfigClamped ==
    /\ sim.cfg.neighbor_radius >= Q
    /\ sim.cfg.infection_radius >= Q
    /\ sim.cfg.separation_radius >= Q \div 2
    /\ sim.cfg.max_speed >= Q
    /\ sim.cfg.max_force >= Q
    /\ sim.cfg.infection_beta >= 0
    /\ sim.cfg.infectious_period >= Q \div 10

(***************************************************************************)
(* The infection timer.                                                    *)
(***************************************************************************)
\* C11: infected_time restarts from 0 only when an agent enters Infected: over
\* every transition, an agent that enters Infected has its timer counted from
\* 0 (it holds the dt of the step), an agent that was Infected keeps or
\* advances its timer and never has it reset, and an agent that stays
\* Susceptible or stays Recovered keeps its timer unchanged; a Susceptible
\* agent's timer is 0.
TimerRestartsOnlyOnEntry ==
    [][\A i \in Agents(sim) :
          /\ (sim.state[i] = Susceptible /\ sim'.state[i] # Susceptible)
                => sim'.infected_time[i] = frame.dt
          /\ sim.state[i] = Infected
                => sim'.infected_time[i] \in
                      {sim.infected_time[i], sim.infected_time[i] + frame.dt}
          /\ (sim.state[i] # Infected /\ sim'.state[i] = sim.state[i])
                => sim'.infected_time[i] = sim.infected_time[i]
          /\ sim'.state[i] = Susceptible => sim'.infected_time[i] = 0]_vars

\* A step has returned in which one agent entered Infected, an Infected agent
\* had its timer advanced, and a Recovered agent's timer was left as it was.
TimerRestartsOnlyOnEntryWitness ==
    /\ Stepped
    /\ \E i \in Agents(sim) : snap.state[i] = Susceptible /\ sim.state[i] = Infected
    /\ \E i \in Agents(sim) :
          /\ snap.state[i] = Infected
          /\ sim.infected_time[i] > snap.infected_time[i]
    /\ \E i \in Agents(sim) :
          /\ snap.state[i] = Recovered
          /\ sim.infected_time[i] = snap.infected_time[i]
          /\ sim.infected_time[i] > 0

(***************************************************************************)
(* The epidemic never shrinks, and stops without Infected agents.          *)
(***************************************************************************)
\* C12: against the counts the last step started from, infected + recovered
\* has not decreased, and if that step started with no Infected agent the
\* three counts are the same as then; so from step to step infected +
\* recovered never decreases, and once no agent is Infected counts() stays the
\* same after every later step.
EpidemicNeverShrinks ==
    \A now \in {Counts(sim)}, before \in {Counts(snap)} :
        /\ now.infected + now.recovered >= before.infected + before.recovered
        /\ before.infected = 0 => now = before

\* A second or later step has returned that started with Susceptible agents,
\* several Recovered ones and no Infected one.
EpidemicNeverShrinksWitness ==
    /\ Stepped
    /\ steps > 1
    /\ Counts(snap).infected = 0
    /\ Counts(snap).susceptible > 0
    /\ Counts(snap).recovered > 1

(***************************************************************************)
(* The generators on their own: two Lcg of the engine and one Rand of the  *)
(* trainer, created with the same seed and called in step.  gen.prev is    *)
(* the state before the last call, the ret fields what the call returned.  *)
(***************************************************************************)
MaxDraws == 12

NoSim == [absent |-> TRUE]
HasGen == "absent" \notin DOMAIN gen

\* Seeds of main.rs and headless.rs, and seeds whose first draw is
\* 0xFFFFFFFF, 0xFFFFFF80, 0xFFFFFF7F and 0.
GenSeeds ==
    {U32(1337), U32(4242), U32(9001),
     [hi |-> 9973, lo |-> 46880], [hi |-> 46505, lo |-> 44389],
     [hi |-> 46793, lo |-> 21664], [hi |-> 9686, lo |-> 4069]}

NoReturn == [kind |-> "none"]

GenInit ==
    /\ \E seed \in GenSeeds :
          gen = [seed |-> seed, lcg |-> LcgNew(seed), other |-> LcgNew(seed),
                 rand |-> RandNew(seed), prev |-> seed, n |-> 0,
                 lcg_ret |-> NoReturn, other_ret |-> NoReturn, rand_ret |-> NoReturn]
    /\ sim = NoSim
    /\ frame = IdleFrame
    /\ twin = NoTwin
    /\ built = NoSim
    /\ snap = NoSim
    /\ last = "new"
    /\ steps = 0
    /\ calls = 0
    /\ trainer = NoTrainer
    /\ codec = NoCodec

\* next_u32() on the three generators.
GenNextU32 ==
    /\ HasGen
    /\ gen.n < MaxDraws
    /\ \E a \in {LcgNextU32(gen.lcg)}, b \in {LcgNextU32(gen.other)},
          c \in {RandNextU32(gen.rand)} :
          gen' = [gen EXCEPT !.lcg = a, !.other = b, !.rand = c,
                             !.prev = gen.lcg, !.n = gen.n + 1,
                             !.lcg_ret = [kind |-> "u32", value |-> a],
                             !.other_ret = [kind |-> "u32", value |-> b],
                             !.rand_ret = [kind |-> "u32", value |-> c]]
    /\ UNCHANGED << sim, frame, twin, built, snap, last, steps, calls, trainer, codec >>

\* next_f32() on the three generators.
GenNextF32 ==
    /\ HasGen
    /\ gen.n < MaxDraws
    /\ \E a \in {LcgNextU32(gen.lcg)}, b \in {LcgNextU32(gen.other)},
          c \in {RandNextU32(gen.rand)} :
          gen' = [gen EXCEPT !.lcg = a, !.other = b, !.rand = c,
                             !.prev = gen.lcg, !.n = gen.n + 1,
                             !.lcg_ret = [kind |-> "f32", value |-> SampleOf(a)],
                             !.other_ret = [kind |-> "f32", value |-> SampleOf(b)],
                             !.rand_ret = [kind |-> "f32", value |-> RandSampleOf(c)]]
    /\ UNCHANGED << sim, frame, twin, built, snap, last, steps, calls, trainer, codec >>

GenNext == GenNextU32 \/ GenNextF32

GenSpec == GenInit /\ [][GenNext]_vars

\* Arithmetic modulo 2^32 by doubling and adding.
Mod32Add(a, b) ==
    [hi |-> (a.hi + b.hi + ((a.lo + b.lo) \div Limb)) % Limb, lo |-> (a.lo + b.lo) % Limb]

RECURSIVE Mod32Times(_, _)
Mod32Times(a, m) ==
    IF m = 0 THEN [hi |-> 0, lo |-> 0]
    ELSE \* a * m = 2 * (a * (m div 2)) + a * (m mod 2)
         Bind(Mod32Times(a, m \div 2), LAMBDA h :
            IF m % 2 = 1 THEN Mod32Add(Mod32Add(h, h), a) ELSE Mod32Add(h, h))

Recurrence(state) == Mod32Add(Mod32Times(state, 1664525), U32(1013904223))

\* C13: every call replaces the state by (state * 1664525 + 1013904223) mod
\* 2^32, next_u32 returns the new state, two Lcg created with the same seed
\* return the same value at every call, and the trainer's Rand returns what
\* the engine's Lcg returns.
GeneratorsFollowRecurrence ==
    (HasGen /\ gen.n > 0) =>
        /\ gen.lcg = Recurrence(gen.prev)
        /\ gen.lcg_ret.kind = "u32" => gen.lcg_ret.value = gen.lcg
        /\ gen.other_ret = gen.lcg_ret
        /\ gen.rand = gen.lcg
        /\ gen.rand_ret = gen.lcg_ret

\* Generators seeded with 1337 have made every call, the last one a next_u32
\* whose multiplication wrapped around 2^32.
GeneratorsFollowRecurrenceWitness ==
    /\ HasGen
    /\ gen.seed = U32(1337)
    /\ gen.n = MaxDraws
    /\ gen.lcg_ret.kind = "u32"
    /\ gen.prev.hi > 4096

\* C14: next_f32() returns a value v with 0 <= v < 1 and never 1.
SampleBelowOne ==
    (HasGen /\ gen.lcg_ret.kind = "f32") =>
        /\ ~SampleIsOne(gen.lcg_ret.value)
        /\ ~SampleIsOne(gen.rand_ret.value)

(***************************************************************************)
(* A caller of to_vec and from_vec: it flattens a policy, may change the   *)
(* vector (as the trainer perturbs it, or by dropping or adding elements)  *)
(* and inflates it again with the policy's sizes.                          *)
(***************************************************************************)
MaxEdits == 2

HasCodec == "absent" \notin DOMAIN codec

NoParams == << >>
NoPolicy == [absent |-> TRUE]
HasParams == HasCodec /\ codec.flat
HasMade == HasCodec /\ "absent" \notin DOMAIN codec.made

PolicySizes == {<< FEATURE_SIZE, HIDDEN_SIZE >>, << 2, 3 >>}
PolicySeeds == {U32(1337), U32(4242)}

\* Policies as randomize fills them, and the all-zero policy of NnPolicy::new.
CodecPolicies ==
    {Randomize(NnPolicyNew(sz[1], sz[2]), LcgNew(seed), RandomizeScale).policy :
        sz \in PolicySizes, seed \in PolicySeeds}
    \cup {NnPolicyNew(FEATURE_SIZE, HIDDEN_SIZE)}

CodecInit ==
    /\ \E policy \in CodecPolicies :
          codec = [policy |-> policy, flat |-> FALSE, params |-> NoParams,
                   edits |-> 0, made |-> NoPolicy]
    /\ sim = NoSim
    /\ frame = IdleFrame
    /\ twin = NoTwin
    /\ built = NoSim
    /\ snap = NoSim
    /\ last = "new"
    /\ steps = 0
    /\ calls = 0
    /\ gen = NoGen
    /\ trainer = NoTrainer

CodecFrame == UNCHANGED << sim, frame, twin, built, snap, last, steps, calls, gen, trainer >>

CodecToVec ==
    /\ HasCodec /\ ~HasParams
    /\ codec' = [codec EXCEPT !.flat = TRUE, !.params = ToVec(codec.policy)]
    /\ CodecFrame

\* The caller drops the last element.
CodecPop ==
    /\ HasParams /\ ~HasMade
    /\ codec.edits < MaxEdits
    /\ Len(codec.params) > 0
    /\ codec' = [codec EXCEPT !.params = SubSeq(codec.params, 1, Len(codec.params) - 1),
                              !.edits = codec.edits + 1]
    /\ CodecFrame

\* The caller appends an element.
CodecPush(v) ==
    /\ HasParams /\ ~HasMade
    /\ codec.edits < MaxEdits
    /\ codec' = [codec EXCEPT !.params = Append(codec.params, v),
                              !.edits = codec.edits + 1]
    /\ CodecFrame

\* *p += noise on one element.
CodecPerturb(k, noise) ==
    /\ HasParams /\ ~HasMade
    /\ codec.edits < MaxEdits
    /\ k \in 1..Len(codec.params)
    /\ codec' = [codec EXCEPT !.params[k] = codec.params[k] + noise,
                              !.edits = codec.edits + 1]
    /\ CodecFrame

CodecFromVec ==
    /\ HasParams /\ ~HasMade
    /\ codec' = [codec EXCEPT !.made = FromVec(codec.policy.input_size,
                                               codec.policy.hidden_size,
                                               codec.params)]
    /\ CodecFrame

CodecNext ==
    \/ CodecToVec
    \/ CodecPop
    \/ \E v \in {0, 3} : CodecPush(v)
    \/ \E k \in {1, 2}, noise \in {-4, 4} : CodecPerturb(k, noise)
    \/ CodecFromVec

PolicySpec == CodecInit /\ [][CodecNext]_vars

FeatureVectors ==
    {[k \in 1..FEATURE_SIZE |-> 0],
     [k \in 1..FEATURE_SIZE |-> Q],
     [k \in 1..FEATURE_SIZE |-> IF k % 2 = 0 THEN -Q ELSE k]}

\* C15: to_vec lists w1, b1, w2, b2 in this order, and from_vec with the
\* policy's sizes on that vector gives a policy with the same w1, b1, w2 and
\* b2, hence the same forward output on every feature vector.
RoundTripKeepsPolicy ==
    /\ HasParams /\ codec.edits = 0 =>
          /\ Len(codec.params) = ParamCount(codec.policy)
          /\ \A k \in 1..Len(codec.params) :
                codec.params[k] =
                    LET p == codec.policy
                        a == Len(p.w1)
                        b == a + Len(p.b1)
                        c == b + Len(p.w2)
                    IN  IF k <= a THEN p.w1[k]
                        ELSE IF k <= b THEN p.b1[k - a]
                        ELSE IF k <= c THEN p.w2[k - b]
                        ELSE p.b2[k - c]
    /\ HasMade /\ codec.edits = 0 =>
          /\ ~IsPanic(codec.made)
          /\ codec.made.w1 = codec.policy.w1
          /\ codec.made.b1 = codec.policy.b1
          /\ codec.made.w2 = codec.policy.w2
          /\ codec.made.b2 = codec.policy.b2
          /\ codec.policy.input_size = FEATURE_SIZE =>
             \A x \in FeatureVectors :
                ForwardInto(codec.made, x, Zeros(codec.policy.hidden_size)).out
                    = ForwardInto(codec.policy, x, Zeros(codec.policy.hidden_size)).out

\* A randomized policy of the engine's sizes went through to_vec and from_vec
\* unchanged; its forward output is not zero on some feature vector.
RoundTripKeepsPolicyWitness ==
    /\ HasMade
    /\ codec.edits = 0
    /\ codec.policy.input_size = FEATURE_SIZE
    /\ codec.policy.w1 # Zeros(FEATURE_SIZE * HIDDEN_SIZE)
    /\ codec.policy.b1 # Zeros(HIDDEN_SIZE)
    /\ \E x \in FeatureVectors :
          ForwardInto(codec.policy, x, Zeros(HIDDEN_SIZE)).out # Vec2fDefault

\* C16: from_vec ends in a fatal failure whenever params.len() differs from
\* input_size * hidden_size + hidden_size + hidden_size * 2 + 2, shorter or
\* longer.
FromVecRejectsWrongLength ==
    (HasMade /\ Len(codec.params) # ParamCount(codec.policy)) => IsPanic(codec.made)

\* C20: set_policy_for(s, p) replaces slot s only: afterwards policy_for(s) is
\* p, and the two other policies, every agent array, the configuration, the
\* grid and the generator state are as before; the stored policies change in
\* no other call, whatever the caller does with its own values.
SetPolicyReplacesOneSlot ==
    [][/\ \A st \in HealthState, p \in PolicyArgs :
             CallSetPolicyFor(st, p) =>
                 /\ PolicyFor(sim', st) = p
                 /\ \A o \in HealthState \ {st} : PolicyFor(sim', o) = PolicyFor(sim, o)
                 /\ \A f \in DOMAIN sim \ {"policies"} : sim'[f] = sim[f]
                 /\ DOMAIN sim' = DOMAIN sim
       /\ sim'.policies # sim.policies => last' = "set_policy_for" /\ calls' = calls + 1
      ]_vars

\* A policy was replaced after a step was made; the two other slots still
\* hold randomized policies.
SetPolicyReplacesOneSlotWitness ==
    /\ last = "set_policy_for"
    /\ steps > 0
    /\ \E st \in HealthState :
          /\ PolicyFor(sim, st) \in PolicyArgs
          /\ \A o \in HealthState \ {st} : PolicyFor(sim, o) \notin PolicyArgs

(***************************************************************************)
(* The trainer (headless.rs).  Rand::normal is computed on sixteenths of   *)
(* its two samples: the radius sqrt(-2 ln u1) from a table at scale 100,   *)
(* the cosine of TAU * u2 from CosTable.                                   *)
(***************************************************************************)
PopSize == 24
Elite == 6
\* sigma = 0.35, at scale 100.
Sigma == 35
RolloutSeed == U32(9001)
MainSeed == U32(1337)

\* sqrt(-2 ln u) at scale 100 for u = max(k / 16, 1e-6), k = 0..16.
NormalRadiusTable ==
    << 526, 235, 204, 183, 167, 153, 140, 129, 118, 107, 97, 87, 76, 64, 52, 36, 0 >>

\* rng.normal() * sigma on the lattice, from the two samples normal draws.
NormalTimesSigma(u1, u2) ==
    LET r == NormalRadiusTable[SampleTimes(u1, Directions) + 1]
        c == CosTable[(SampleTimes(u2, Directions) % Directions) + 1]
    IN  RDiv(r * c * Sigma, 10000)

RECURSIVE RandStream(_, _)
\* The generator states after 1, 2, ..., k draws from s.
RandStream(s, k) ==
    IF k = 0 THEN << >>
    ELSE IF k = 1 THEN << RandNextU32(s) >>
    ELSE Bind(RandStream(s, k \div 2), LAMBDA a :
            Bind(a[Len(a)], LAMBDA t : a \o RandStream(t, k - (k \div 2))))

\* for p in &mut params { *p += rng.normal() * sigma; }: the vector and the
\* generator state after the loop.
Perturb(mean, rng) ==
    IF Len(mean) = 0 THEN [params |-> mean, rng |-> rng]
    ELSE Bind(RandStream(rng, 2 * Len(mean)), LAMBDA st :
            [params |-> [k \in 1..Len(mean) |->
                            mean[k] + NormalTimesSigma(RandSampleOf(st[2 * k - 1]),
                                                       RandSampleOf(st[2 * k]))],
             rng |-> st[2 * Len(mean)]])

\* The simulation evaluate steps: built fresh, the three policies set, then
\* the candidate in the slot of state.
EvaluateSetupCandidateFirst(count, cfg, policies, state, params, hasher) ==
    Bind(New(count, cfg, RolloutSeed, hasher), LAMBDA made :
        IF IsPanic(made) THEN made
        ELSE Bind(FromVec(FEATURE_SIZE, HIDDEN_SIZE, params), LAMBDA candidate :
                IF IsPanic(candidate) THEN candidate
                ELSE SetPolicyFor(
                       SetPolicyFor(
                         SetPolicyFor(
                           SetPolicyFor(made, state, candidate),
                           Susceptible, policies[1]),
                         Infected, policies[2]),
                       Recovered, policies[3])))

EvaluateSetup(count, cfg, policies, state, params, hasher) ==
    Bind(New(count, cfg, RolloutSeed, hasher), LAMBDA made :
        IF IsPanic(made) THEN made
        ELSE Bind(FromVec(FEATURE_SIZE, HIDDEN_SIZE, params), LAMBDA candidate :
                IF IsPanic(candidate) THEN candidate
                ELSE SetPolicyFor(
                       SetPolicyFor(
                         SetPolicyFor(
                           SetPolicyFor(made, Susceptible, policies[1]),
                           Infected, policies[2]),
                         Recovered, policies[3]),
                       state, candidate)))

\* The score evaluate returns for the counts the rollout ends with.
ScoreOf(state, counts) ==
    CASE state = Susceptible -> counts.susceptible
      [] state = Infected -> counts.infected + counts.recovered
      [] state = Recovered -> counts.susceptible + counts.recovered

RECURSIVE InsertByScore(_, _)
\* c placed in the descending sequence sorted, behind every element that
\* does not score less.
InsertByScore(sorted, c) ==
    IF Len(sorted) = 0 THEN << c >>
    ELSE IF sorted[Len(sorted)].score >= c.score THEN Append(sorted, c)
    ELSE Append(InsertByScore(SubSeq(sorted, 1, Len(sorted) - 1), c), sorted[Len(sorted)])

RECURSIVE SortByScoreAscending(_)
SortByScoreAscending(candidates) ==
    IF Len(candidates) = 0 THEN << >>
    ELSE Bind(SortByScoreAscending(SubSeq(candidates, 1, Len(candidates) - 1)), LAMBDA sorted :
            Bind(InsertByScore(
                    [k \in 1..Len(sorted) |-> sorted[Len(sorted) + 1 - k]],
                    candidates[Len(candidates)]), LAMBDA d :
                [k \in 1..Len(d) |-> d[Len(d) + 1 - k]]))

RECURSIVE SortByScore(_)
\* candidates.sort_by(|a, b| b.1.partial_cmp(&a.1)...): stable, descending.
SortByScore(candidates) ==
    IF Len(candidates) = 0 THEN << >>
    ELSE Bind(SortByScore(SubSeq(candidates, 1, Len(candidates) - 1)), LAMBDA sorted :
            InsertByScore(sorted, candidates[Len(candidates)]))

RECURSIVE SumParams(_, _, _)
\* mean_params after the first n candidates were added, at index k.
SumParams(sorted, n, k) ==
    IF n = 0 THEN 0 ELSE SumParams(sorted, n - 1, k) + sorted[n].params[k]

\* The sums, then *v *= inv with inv = 1.0 / elite.
MeanParams(sorted, len) == [k \in 1..len |-> RDiv(SumParams(sorted, Elite, k), Elite)]

(***************************************************************************)
(* One call of cem_one_iteration by main, statement by statement: trainer  *)
(* holds the arguments and locals of the call, sim and frame those of the  *)
(* rollout in progress.  The rollout has RolloutAgents agents and          *)
(* RolloutSteps steps of RolloutDt.                                        *)
(***************************************************************************)
RolloutAgents == MaxAgents
RolloutSteps == MaxSteps
RolloutDt == 10

RECURSIVE RunFrame(_, _)
\* The rest of a step from loop position f on.
RunFrame(s, f) ==
    IF f.phase = "idle" THEN s
    ELSE Bind(CASE f.phase = "read" -> ReadAgent(s, f)
                [] f.phase = "integrate" -> IntegrateAgent(s, f)
                [] f.phase = "apply" -> ApplyAgent(s, f),
              LAMBDA t : RunFrame(t, FrameAdvance(s, f)))

\* step(dt) as one call.
Step(s, dt) == Bind(StepPrologue(s), LAMBDA t : RunFrame(t, FrameBegin(s, dt)))

RECURSIVE StepTimes(_, _, _)
\* for _ in 0..steps { sim.step(dt); }
StepTimes(s, dt, n) ==
    IF n = 0 THEN s ELSE Bind(Step(s, dt), LAMBDA t : StepTimes(t, dt, n - 1))

\* evaluate as one call; hasher is what the rollout's grid draws.
Evaluate(cfg, policies, state, params, hasher) ==
    Bind(EvaluateSetup(RolloutAgents, cfg, policies, state, params, hasher), LAMBDA made :
        ScoreOf(state, Counts(StepTimes(made, RolloutDt, RolloutSteps))))

\* main's configuration, and one whose agents meet within a rollout.
MainCfg ==
    [world_size |-> Vec2fNew(8000, 6000), max_speed |-> 1600, max_force |-> 800,
     neighbor_radius |-> 600, separation_radius |-> 220, infection_radius |-> 180,
     infection_beta |-> 12, infectious_period |-> 60, initial_infected |-> 8]
CloseCfg ==
    [world_size |-> Vec2fNew(200, 200), max_speed |-> 80, max_force |-> 200,
     neighbor_radius |-> 60, separation_radius |-> 20, infection_radius |-> 30,
     infection_beta |-> 60, infectious_period |-> 100, initial_infected |-> 1]
TrainCfgs == {MainCfg, CloseCfg}
TrainSeeds == {U32(4242), U32(4256)}

NoResult == [absent |-> TRUE]
HasTrainer == "absent" \notin DOMAIN trainer
HasResult == HasTrainer /\ "absent" \notin DOMAIN trainer.result
InRollout == HasTrainer /\ trainer.phase = "rollout"

\* main up to the call: the policies are clones of those of a new simulation.
\* The trainer's own index of a health state.
StateIdx(state) ==
    CASE state = Susceptible -> 0
      [] state = Infected -> 1
      [] state = Recovered -> 2

TrainInit ==
    /\ \E cfg \in TrainCfgs, seed \in TrainSeeds, state \in HealthState, hasher \in Hashers :
        \E made \in {New(RolloutAgents, cfg, MainSeed, hasher)} :
          /\ ~IsPanic(made)
          /\ trainer = [phase |-> "perturb",
                        cfg |-> cfg,
                        policies |-> << PolicyFor(made, Susceptible),
                                        PolicyFor(made, Infected),
                                        PolicyFor(made, Recovered) >>,
                        passed |-> made.policies,
                        state |-> state,
                        rng |-> RandNew(seed),
                        mean |-> ToVec(<< PolicyFor(made, Susceptible),
                                          PolicyFor(made, Infected),
                                          PolicyFor(made, Recovered) >>[StateIdx(state) + 1]),
                        params |-> << >>,
                        candidates |-> << >>,
                        result |-> NoResult]
    /\ sim = NoSim
    /\ frame = IdleFrame
    /\ twin = NoTwin
    /\ built = NoSim
    /\ snap = NoSim
    /\ last = "new"
    /\ steps = 0
    /\ calls = 0
    /\ gen = NoGen
    /\ codec = NoCodec

\* let mut params = mean.clone(); and the loop that perturbs it.
CemPerturb ==
    /\ HasTrainer /\ trainer.phase = "perturb"
    /\ Len(trainer.candidates) < PopSize
    /\ \E r \in {Perturb(trainer.mean, trainer.rng)} :
          trainer' = [trainer EXCEPT !.phase = "evaluate", !.params = r.params, !.rng = r.rng]
    /\ UNCHANGED << sim, frame, twin, built, snap, last, steps, calls, gen, codec >>

\* evaluate up to its loop.
EvalBegin(hasher) ==
    /\ HasTrainer /\ trainer.phase = "evaluate"
    /\ \E made \in {EvaluateSetup(RolloutAgents, trainer.cfg, trainer.policies,
                                  trainer.state, trainer.params, hasher)} :
          /\ ~IsPanic(made)
          /\ sim' = made
    /\ built' = [count |-> RolloutAgents, cfg |-> trainer.cfg, seed |-> RolloutSeed]
    /\ frame' = IdleFrame
    /\ snap' = NoSim
    /\ last' = "new"
    /\ steps' = 0
    /\ trainer' = [trainer EXCEPT !.phase = "rollout"]
    /\ UNCHANGED << twin, calls, gen, codec >>

\* evaluate after its loop, and candidates.push((params, score)).
EvalEnd ==
    /\ InRollout
    /\ Idle
    /\ steps = RolloutSteps
    /\ trainer' = [trainer EXCEPT
                      !.phase = "perturb",
                      !.candidates = Append(@, [params |-> trainer.params,
                                                score |-> ScoreOf(trainer.state, Counts(sim))])]
    /\ sim' = NoSim
    /\ UNCHANGED << frame, twin, built, snap, last, steps, calls, gen, codec >>

\* The sort, best_score, the mean of the elite, from_vec and the return.
CemReturn ==
    /\ HasTrainer /\ trainer.phase = "perturb"
    /\ Len(trainer.candidates) = PopSize
    /\ \E sorted \in {SortByScore(trainer.candidates)} :
          trainer' = [trainer EXCEPT
                         !.phase = "returned",
                         !.result = [policy |-> FromVec(FEATURE_SIZE, HIDDEN_SIZE,
                                                        MeanParams(sorted, Len(trainer.mean))),
                                     best_score |-> sorted[1].score]]
    /\ UNCHANGED << sim, frame, twin, built, snap, last, steps, calls, gen, codec >>

\* main: policies[idx] = best.
MainStore ==
    /\ HasTrainer /\ trainer.phase = "returned"
    /\ trainer' = [trainer EXCEPT !.phase = "stored",
                                  !.policies[StateIdx(trainer.state) + 1] = trainer.result.policy]
    /\ UNCHANGED << sim, frame, twin, built, snap, last, steps, calls, gen, codec >>

TrainNext ==
    \/ CemPerturb
    \/ \E hasher \in Hashers : EvalBegin(hasher)
    \/ InRollout /\ StepEnter(RolloutDt)
    \/ InRollout /\ StepRead
    \/ InRollout /\ StepIntegrate
    \/ InRollout /\ StepApply
    \/ EvalEnd
    \/ CemReturn
    \/ MainStore

TrainSpec == TrainInit /\ [][TrainNext]_vars

Ahead(candidates, i) ==
    {j \in 1..Len(candidates) :
        \/ candidates[j].score > candidates[i].score
        \/ candidates[j].score = candidates[i].score /\ j < i}

EliteOf(candidates) == {i \in 1..Len(candidates) : Cardinality(Ahead(candidates, i)) < Elite}

RECURSIVE SumOver(_, _, _)
SumOver(candidates, set, k) ==
    IF set = {} THEN 0
    ELSE LET i == CHOOSE i \in set : TRUE
         IN  candidates[i].params[k] + SumOver(candidates, set \ {i}, k)

\* C18: best_score is the highest score of the PopSize candidates, and the
\* parameter vector of the returned policy is the element-wise mean of the
\* Elite highest-scoring candidates.
ReturnsBestAndEliteMean ==
    HasResult =>
        \A c \in {trainer.candidates}, e \in {EliteOf(trainer.candidates)} :
            /\ Len(c) = PopSize
            /\ \A i \in 1..PopSize : c[i].score <= trainer.result.best_score
            /\ \E i \in 1..PopSize : c[i].score = trainer.result.best_score
            /\ Cardinality(e) = Elite
            /\ \A i \in e, j \in (1..PopSize) \ e : c[i].score >= c[j].score
            /\ ~IsPanic(trainer.result.policy)
            /\ \A v \in {ToVec(trainer.result.policy)} :
                  /\ Len(v) = Len(trainer.mean)
                  /\ \A k \in 1..Len(v) : v[k] = RDiv(SumOver(c, e, k), Elite)

\* A call returned whose candidates scored differently, whose elite is not
\* the first Elite candidates generated, and whose policy differs from the
\* one passed in.
ReturnsBestAndEliteMeanWitness ==
    /\ HasResult
    /\ \E i, j \in 1..PopSize : trainer.candidates[i].score < trainer.candidates[j].score
    /\ EliteOf(trainer.candidates) # 1..Elite
    /\ \E i \in 1..PopSize \ EliteOf(trainer.candidates) :
          trainer.candidates[i].score < trainer.result.best_score
    /\ ToVec(trainer.result.policy) # trainer.mean

\* C19: every rollout starts from a new simulation with the same seed, agent
\* count and configuration and runs the same number of steps; the policies of
\* the two other states are the ones passed in and the slot of the target
\* state holds the candidate; the caller's policies are unchanged when the
\* call returns; a candidate's score depends on its parameter vector alone.
RolloutsFreshAndFramed ==
    /\ InRollout =>
          /\ built = [count |-> RolloutAgents, cfg |-> trainer.cfg, seed |-> RolloutSeed]
          /\ steps <= RolloutSteps
          /\ \A o \in HealthState \ {trainer.state} :
                PolicyFor(sim, o) = trainer.passed[Idx(o) + 1]
          /\ PolicyFor(sim, trainer.state)
                = FromVec(FEATURE_SIZE, HIDDEN_SIZE, trainer.params)
    /\ InRollout /\ steps = 0 =>
          \A made \in {New(RolloutAgents, trainer.cfg, RolloutSeed, sim.grid.hasher)} :
              /\ AgentView(sim) = AgentView(made)
              /\ sim.rng = made.rng
              /\ sim.cfg = made.cfg
              /\ sim.grid = made.grid
    /\ HasTrainer /\ trainer.phase # "stored" => trainer.policies = trainer.passed
    /\ HasTrainer /\ trainer.phase = "perturb" /\ Len(trainer.candidates) > 0 =>
          \A c \in {trainer.candidates[Len(trainer.candidates)]} :
              c.score = Evaluate(trainer.cfg, trainer.passed, trainer.state, c.params, 0)

\* A call returned after rollouts that scored differently; the caller's
\* policies are still those passed in, and differ from the returned one.
RolloutsFreshAndFramedWitness ==
    /\ HasResult
    /\ trainer.phase = "returned"
    /\ trainer.policies = trainer.passed
    /\ trainer.result.policy # trainer.passed[Idx(trainer.state) + 1]
    /\ \E i, j \in 1..PopSize :
          /\ trainer.candidates[i].params # trainer.candidates[j].params
          /\ trainer.candidates[i].score # trainer.candidates[j].score

\* C21: agent data is mutated only inside step: the four setters leave every
\* agent's position, velocity, health state and infected_time as they were,
\* and whenever one of them changes, a loop of step is running.
AgentsChangeOnlyInStep ==
    [][/\ calls' # calls => AgentView(sim') = AgentView(sim)
       /\ (\/ \E a \in MotionArgs : CallSetMotionParams(a)
           \/ \E a \in InfectionArgs : CallSetInfectionParams(a)
           \/ \E size \in WorldSizes : CallSetWorldSize(size)
           \/ \E st \in HealthState, p \in PolicyArgs : CallSetPolicyFor(st, p))
              => AgentView(sim') = AgentView(sim) /\ BoidCount(sim') = BoidCount(sim)
       /\ AgentView(sim') # AgentView(sim) => frame.phase \in {"integrate", "apply"}
      ]_vars

\* set_world_size returned after a step and left an agent outside the new
\* world, where the step had put it.
AgentsChangeOnlyInStepWitness ==
    /\ last = "set_world_size"
    /\ steps > 0
    /\ \E i \in Agents(sim) : sim.pos_x[i] >= sim.cfg.world_size.x

\* The step that snap shows the start of is running or was the last call.
SnapIsStepStart == frame.phase # "idle" \/ last = "step"

\* C22: an agent leaves Susceptible in a step only if, at the start of that
\* step, another agent was Infected at a distance below infection_radius; so
\* an agent infected in a step infects no one in the same step.
InfectionNeedsInfectedContact ==
    SnapIsStepStart =>
        /\ \A i \in Agents(sim) :
              snap.state[i] = Susceptible /\ sim.state[i] # Susceptible =>
                  \E j \in Agents(sim) \ {i} :
                      /\ snap.state[j] = Infected
                      /\ Dist(snap, i, j) < sim.cfg.infection_radius
        /\ \A i \in Agents(sim) :
              sim.infected_buf[i] /\ frame.phase # "idle" =>
                  /\ snap.state[i] = Susceptible
                  /\ \E j \in Agents(sim) \ {i} :
                        /\ snap.state[j] = Infected
                        /\ Dist(snap, i, j) < sim.cfg.infection_radius

\* A step infected agent i and left a later agent k Susceptible: k was within
\* infection_radius of i, and of no agent that was Infected when the step began.
InfectionNeedsInfectedContactWitness ==
    /\ frame.phase = "idle"
    /\ last = "step"
    /\ \E i, k \in Agents(sim) :
          /\ snap.state[i] = Susceptible
          /\ sim.state[i] = Infected
          /\ k > i
          /\ snap.state[k] = Susceptible
          /\ sim.state[k] = Susceptible
          /\ Dist(snap, i, k) < sim.cfg.infection_radius
          /\ \A j \in Agents(sim) :
                snap.state[j] = Infected => Dist(snap, k, j) >= sim.cfg.infection_radius

\* Agent i has an Infected agent other than itself within infection_radius.
HasInfectedContact(s, i) ==
    \E j \in Agents(s) \ {i} :
        s.state[j] = Infected /\ Dist(s, i, j) < s.cfg.infection_radius

\* C23: step advances the generator once for each agent that is Susceptible
\* and has infected contact, in ascending index order, and for no other
\* agent; nothing else in step, and no setter, advances it.
GeneratorAdvancesPerContact ==
    [][/\ frame.phase = "read" =>
             /\ sim'.rng = IF sim.state[frame.i] = Susceptible /\ HasInfectedContact(sim, frame.i)
                           THEN LcgNextU32(sim.rng)
                           ELSE sim.rng
             /\ frame'.phase = "read" => frame'.i = frame.i + 1
             /\ frame'.phase # "read" => frame.i = BoidCount(sim) - 1
       /\ frame.phase # "read" =>
             /\ sim'.rng = sim.rng
             /\ frame'.phase = "read" => frame'.i = 0
      ]_vars

\* A step ended in which the generator was advanced for one Susceptible
\* agent and not for another, which had no infected contact.
GeneratorAdvancesPerContactWitness ==
    /\ frame.phase = "idle"
    /\ last = "step"
    /\ \E i, k \in Agents(sim) :
          /\ snap.state[i] = Susceptible
          /\ \E j \in Agents(sim) \ {i} :
                snap.state[j] = Infected /\ Dist(snap, i, j) < sim.cfg.infection_radius
          /\ snap.state[k] = Susceptible
          /\ \A j \in Agents(sim) \ {k} :
                snap.state[j] = Infected => Dist(snap, k, j) >= sim.cfg.infection_radius
    /\ \A hasher \in {sim.grid.hasher} :
          sim.rng # New(built.count, built.cfg, built.seed, hasher).rng

(***************************************************************************)
(* A driver that calls step with one fixed dt, leaves the configuration    *)
(* alone and goes on for as long as an agent is Infected.  built holds     *)
(* the arguments of Simulation::new and the driver's dt.                   *)
(***************************************************************************)
LongCfg == [GoodCfg EXCEPT !.infectious_period = 35]
LiveCfgs == {GoodCfg, LongCfg}

LiveInit ==
    /\ \E count \in AgentCounts, cfg \in LiveCfgs, seed \in Seeds, hasher \in Hashers,
          dt \in Dts :
        \E made \in {New(count, cfg, seed, hasher)} :
          /\ ~IsPanic(made)
          /\ sim = made
          /\ built = [count |-> count, cfg |-> cfg, seed |-> seed, dt |-> dt]
    /\ twin = NoTwin
    /\ InitHistory

LiveStepEnter ==
    /\ Idle
    /\ \E i \in Agents(sim) : sim.state[i] = Infected
    /\ sim' = StepPrologue(sim)
    /\ frame' = FrameBegin(sim, built.dt)
    /\ snap' = AgentView(sim)
    /\ last' = IF frame'.phase = "idle" THEN "step" ELSE last
    /\ UNCHANGED << twin, built, steps, calls, gen, trainer, codec >>

LiveNext ==
    \/ LiveStepEnter
    \/ StepRead
    \/ StepIntegrate
    \/ StepApply

\* The driver goes on calling step, and a call that began runs to its end.
LiveSpec == LiveInit /\ [][LiveNext]_vars /\ WF_vars(LiveNext)

Occurrences(items, i) == Cardinality({k \in 1..Len(items) : items[k] = i})

\* C25: while the first loop of step calls for_each_neighbor, every agent
\* index is in the grid exactly once, in the bucket whose key is
\* floor(position / cell_size) per axis for the position the agent had when
\* the step began and the cell_size of now; the buckets hold nothing else.
GridHoldsEachAgentOnce ==
    frame.phase = "read" =>
        \A b \in {sim.grid.buckets}, c \in {sim.grid.cell_size} :
            /\ c >= Q
            /\ \A key \in DOMAIN b :
                  /\ Len(b[key]) > 0
                  /\ \A k \in 1..Len(b[key]) :
                        \E i \in Agents(sim) :
                            /\ b[key][k] = i
                            /\ key.x * c <= snap.pos_x[i] /\ snap.pos_x[i] < (key.x + 1) * c
                            /\ key.y * c <= snap.pos_y[i] /\ snap.pos_y[i] < (key.y + 1) * c
                            /\ Occurrences(b[key], i) = 1
            /\ \A i \in Agents(sim) :
                  Cardinality({key \in DOMAIN b : Occurrences(b[key], i) > 0}) = 1

\* The first loop of a later step runs after a setter changed cell_size; the
\* agents are in more than one cell and one of them stands outside the world.
GridHoldsEachAgentOnceWitness ==
    /\ frame.phase = "read"
    /\ steps >= 2
    /\ calls > 0
    /\ sim.grid.cell_size # Max(built.cfg.neighbor_radius, built.cfg.infection_radius)
    /\ Cardinality(DOMAIN sim.grid.buckets) > 1
    /\ \E i \in Agents(sim) : sim.pos_x[i] < 0 \/ sim.pos_x[i] >= sim.cfg.world_size.x

\* C26: after every step, the speed of every agent, the length of its
\* velocity, is at most the max_speed the step ran with.
SpeedWithinMaxSpeed ==
    frame.phase = "idle" /\ last = "step" =>
        \A i \in Agents(sim) :
            /\ sim.cfg.max_speed >= 0
            /\ Vec2fLengthSq(BoidVel(sim, i)) <= sim.cfg.max_speed * sim.cfg.max_speed

\* The acceleration the policy stored for state st gives agent i.
AccelOf(s, st, i) ==
    Bind(FeaturesFor(s, i), LAMBDA ff :
    Bind(ForwardInto(PolicyFor(s, st), ff.inputs, s.hidden_buf), LAMBDA fw :
        Vec2fLimit(Vec2fMul(fw.out, s.cfg.max_force), s.cfg.max_force)))

\* C27: the acceleration of an agent is computed with the policy stored for
\* the health state the agent had at the start of the step, and no later loop
\* of the step recomputes it; idx maps Susceptible, Infected and Recovered
\* to the slots 0, 1 and 2, one slot each; the trainer's state_idx gives
\* every state the slot that idx gives it.
PolicyOfStartState ==
    /\ [](/\ Idx(Susceptible) = 0 /\ Idx(Infected) = 1 /\ Idx(Recovered) = 2
          /\ \A a, b \in HealthState : Idx(a) = Idx(b) => a = b
          /\ \A st \in HealthState : Idx(st) \in 0..2 /\ StateIdx(st) = Idx(st)
          /\ frame.phase = "read" =>
                \A j \in Agents(sim) :
                    j < frame.i =>
                        \A a \in {AccelOf(sim, snap.state[j], j)} :
                            sim.accel_x[j] = a.x /\ sim.accel_y[j] = a.y)
    /\ [][frame.phase \in {"integrate", "apply"} =>
            sim'.accel_x = sim.accel_x /\ sim'.accel_y = sim.accel_y]_vars

\* The read loop has passed an agent that is infected in this step and an
\* agent that recovers in it, and the policy of the state each of them ends
\* the step with would have given a different acceleration.
PolicyOfStartStateWitness ==
    /\ frame.phase = "read"
    /\ \E j \in Agents(sim) :
          /\ j < frame.i
          /\ sim.state[j] = Susceptible /\ sim.infected_buf[j]
          /\ \E a \in {AccelOf(sim, Infected, j)} :
                sim.accel_x[j] # a.x \/ sim.accel_y[j] # a.y
    /\ \E k \in Agents(sim) :
          /\ k < frame.i
          /\ sim.state[k] = Infected
          /\ sim.infected_time[k] + frame.dt >= sim.cfg.infectious_period
          /\ \E a \in {AccelOf(sim, Recovered, k)} :
                sim.accel_x[k] # a.x \/ sim.accel_y[k] # a.y

\* C28: an agent infected in a step has its timer advanced in the same step:
\* from its iteration of the third loop to the end of the step its
\* infected_time is dt, which is not 0, and it is Recovered when dt is at
\* least the infectious period and Infected otherwise.
InfectedTimerStartsAtDt ==
    [][frame.phase = "apply" =>
          \A j \in Agents(sim) :
              (j <= frame.i /\ sim.infected_buf[j]) =>
                  /\ snap.state[j] = Susceptible
                  /\ frame.dt > 0
                  /\ sim'.infected_time[j] = frame.dt
                  /\ sim'.infected_time[j] # 0
                  /\ sim'.state[j] = IF frame.dt >= sim.cfg.infectious_period
                                     THEN Recovered ELSE Infected]_vars

\* A step has returned with an agent that was Susceptible when the step began
\* and is Recovered now, under a positive infectious period that its timer
\* has reached.
InfectedTimerStartsAtDtWitness ==
    /\ frame.phase = "idle" /\ last = "step"
    /\ sim.cfg.infectious_period > 0
    /\ \E i \in Agents(sim) :
          /\ snap.state[i] = Susceptible /\ sim.infected_buf[i]
          /\ sim.state[i] = Recovered
          /\ sim.infected_time[i] >= sim.cfg.infectious_period

(***************************************************************************)
(* A caller that constructs one Simulation: the arguments are drawn, then  *)
(* Simulation::new runs and returns or panics.                             *)
(***************************************************************************)
MaxInitialInfected == 4

NewCounts == 0..MaxAgents

\* Seeds of main.rs and headless.rs, seed 1, and for count 1, 2 and 3 the
\* seed whose draw number 4 * count + 3 * param_count + 1 is 0xFFFFFFFF.
NewSeeds ==
    {U32(1337), U32(9001), U32(1),
     [hi |-> 18250, lo |-> 22118], [hi |-> 23891, lo |-> 35602],
     [hi |-> 63872, lo |-> 5886]}

NewInit ==
    /\ \E count \in NewCounts, k \in 0..MaxInitialInfected, seed \in NewSeeds,
          hasher \in Hashers :
          built = [count |-> count, cfg |-> [GoodCfg EXCEPT !.initial_infected = k],
                   seed |-> seed, hasher |-> hasher]
    /\ sim = NoSim
    /\ frame = IdleFrame
    /\ twin = NoTwin
    /\ snap = NoSim
    /\ last = "none"
    /\ steps = 0
    /\ calls = 0
    /\ gen = NoGen
    /\ trainer = NoTrainer
    /\ codec = NoCodec

\* Simulation::new(count, cfg, seed).
CallNew ==
    /\ last = "none"
    /\ sim' = New(built.count, built.cfg, built.seed, built.hasher)
    /\ last' = "new"
    /\ UNCHANGED << frame, twin, built, snap, steps, calls, gen, trainer, codec >>

NewNext == CallNew

NewSpec == NewInit /\ [][NewNext]_vars

\* The number of Infected agents of s.
InfectedCount(s) == Cardinality({i \in Agents(s) : s.state[i] = Infected})

\* C29: right after Simulation::new every agent is Susceptible or Infected
\* with infected_time 0, and the number of Infected agents is at most
\* min(cfg.initial_infected, count) and at least 1 when that minimum is at
\* least 1.
NewSeedsAtMostMin ==
    (last = "new" /\ steps = 0 /\ ~IsPanic(sim)) =>
        /\ \A i \in Agents(sim) :
              sim.state[i] \in {Susceptible, Infected} /\ sim.infected_time[i] = 0
        /\ BoidCount(sim) = built.count
        /\ InfectedCount(sim) <= Min(built.cfg.initial_infected, built.count)
        /\ Min(built.cfg.initial_infected, built.count) >= 1 => InfectedCount(sim) >= 1

\* Simulation::new has returned with fewer Infected agents than the minimum:
\* two draws of seed_infections gave the same index.
NewSeedsAtMostMinWitness ==
    /\ last = "new" /\ steps = 0 /\ ~IsPanic(sim)
    /\ built.cfg.initial_infected = 2
    /\ InfectedCount(sim) >= 1
    /\ InfectedCount(sim) < Min(built.cfg.initial_infected, built.count)

\* C30: for every seed, count and initial_infected, every index that
\* seed_infections computes is below count, so Simulation::new returns
\* without an access outside the state array.
SeedIndexBelowCount ==
    last = "new" => ~IsPanic(sim)

=============================================================================
